---- MODULE Spec2Model ----
(***************************************************************************)
(* Model of the file indexer and search of os-personal-agent               *)
(* (src/file_control.py): the `files` and `meta` tables of file_index.db,  *)
(* the filesystem the indexer walks, and the operations ensure_index,      *)
(* ensure_single_root, full_rebuild, incremental_update, search_files.     *)
(* Paths and names are real strings; os.path and SQLite LIKE are computed  *)
(* character by character (posix flavour of os.path).                      *)
(***************************************************************************)
EXTENDS Integers, Sequences, FiniteSets, TLC

VARIABLES
    fs,        \* the filesystem: path -> NoEnt or [kind, mtime, size]
    files,     \* table `files`: set of rows
    seq,       \* sqlite_sequence value for `files` (AUTOINCREMENT)
    meta,      \* table `meta`: key -> value or NoVal
    now,       \* time.time(); a root's indexing takes one unit of time
    last,      \* the operation that executed last: its name, its arguments
               \* and the indexing passes it ran, in order
    raised,    \* exception the last operation raised ("" when none)
    result,    \* list returned by the last search_files call
    fullCount, \* per root: full_rebuild runs made by ensure_single_root
    INCLUDED_EXTENSIONS, \* the module global: [isNone, exts]
    fsOps,     \* number of filesystem changes so far
    calls,     \* number of calls of the program's operations so far
    session,   \* session_state.session: [pending_matches, last_action_type]
    LISTENING_MODE, \* transcript.py: the wake word opened a session
    opened,    \* the open_entry calls of the last operation: [entry, ok]
    handled,   \* the handlers the last utterance was dispatched to
    ret,       \* what the last handle_file_action call returned
    utterances, \* number of finalized utterances so far
    audio_q,   \* transcript.py: the frames the audio callback has queued
    buffer,    \* the main loop: bytes of speech not yet transcribed
    pc,        \* the main loop: "get" (waits for a frame), "transcribe"
               \* (the recogniser runs) or "handle" (handles the text)
    cur        \* the iteration under way: the text, what it meets, the
               \* agent tasks done (k), the session it started on

\* the state of the utterance loop and of handle_file_action
\* the state of audio capture
audioVars == <<audio_q, buffer, pc, cur>>

loopVars == <<session, LISTENING_MODE, opened, handled, ret, utterances,
              audio_q, buffer, pc, cur>>

vars == <<fs, files, seq, meta, now, last, raised, result,
          fullCount, INCLUDED_EXTENSIONS, fsOps, calls,
          session, LISTENING_MODE, opened, handled, ret, utterances,
          audio_q, buffer, pc, cur>>

-----------------------------------------------------------------------------
(* Bounds *)

MaxFsOps == 1
MaxCalls == 2

-----------------------------------------------------------------------------
(* Strings *)

Char(s, i) == SubSeq(s, i, i)

UpperChars == "ABCDEFGHIJKLMNOPQRSTUVWXYZ"
LowerChars == "abcdefghijklmnopqrstuvwxyz"

\* str.lower() on one character (ASCII)
LowerChar(c) ==
    IF \E i \in 1..26 : Char(UpperChars, i) = c
    THEN Char(LowerChars, CHOOSE i \in 1..26 : Char(UpperChars, i) = c)
    ELSE c

RECURSIVE Lower(_)
Lower(s) == IF s = "" THEN "" ELSE LowerChar(Char(s, 1)) \o Lower(Tail(s))

\* str.rfind(c): 1-based index of the last occurrence, 0 when absent
RFind(s, c) ==
    LET hits == {i \in 1..Len(s) : Char(s, i) = c}
    IN  IF hits = {} THEN 0 ELSE CHOOSE i \in hits : \A j \in hits : j <= i

\* `sub in s`
Contains(s, sub) ==
    \E i \in 1..(Len(s) - Len(sub) + 1) : SubSeq(s, i, i + Len(sub) - 1) = sub

\* s.count(c) for a single character c
CountChar(s, c) == Cardinality({i \in 1..Len(s) : Char(s, i) = c})

-----------------------------------------------------------------------------
(* The strings of the model *)

\* the paths that may exist, in directory-listing (scandir) order
Universe ==
    << "/d", "/d/a", "/d/ab",
       "/d/a/t.exe", "/d/a/.git", "/d/a/Program Files",
       "/d/ab/m.TXT",
       "/d/2", "/d/2/2", "/d/2/m.txt",
       "/d/r", "/d/r/Q4_Budget.xlsx", "/d/r/old_q4_budget_notes.txt",
       "/d/r/docs.docx", "/d/r/doc.txt" >>

UniverseSet == {Universe[i] : i \in 1..Len(Universe)}

\* the paths of the second tree, which is there in the runs of the
\* utterance loop only
SecondTree == {"/d/2", "/d/2/2", "/d/2/m.txt"}

\* the paths of the documents tree, which is there in the runs of the
\* ranking only
RankTree ==
    {"/d/r", "/d/r/Q4_Budget.xlsx", "/d/r/old_q4_budget_notes.txt",
     "/d/r/docs.docx", "/d/r/doc.txt"}

\* the roots the callers index
Roots == {"/d", "/d/a", "/d/ab"}

\* the root strings handed to ensure_index (abspath normalises them)
RootArgs == {"/d", "/d/a/", "/d/ab"}

-----------------------------------------------------------------------------
(* os.path (posixpath) *)

Sep == "/"

\* os.path.basename
PosixBasename(p) == SubSeq(p, RFind(p, Sep) + 1, Len(p))

\* (evaluated once for the paths of the universe)
BasenameMemo == [p \in UniverseSet |-> PosixBasename(p)]
Basename(p) ==
    IF p \in DOMAIN BasenameMemo THEN BasenameMemo[p] ELSE PosixBasename(p)

\* os.path.join(a, b)
Join(a, b) ==
    IF Len(b) > 0 /\ Char(b, 1) = Sep THEN b
    ELSE IF a = "" \/ Char(a, Len(a)) = Sep THEN a \o b
    ELSE a \o Sep \o b

\* os.path.splitext: <<root, ext>>; leading dots of the last component are
\* not an extension
SplitExt(p) ==
    LET sepIndex == RFind(p, Sep)
        dotIndex == RFind(p, ".")
    IN  IF dotIndex > sepIndex
           /\ \E k \in (sepIndex + 1)..(dotIndex - 1) : Char(p, k) # "."
        THEN <<SubSeq(p, 1, dotIndex - 1), SubSeq(p, dotIndex, Len(p))>>
        ELSE <<p, "">>

\* os.path.abspath on an absolute path without "." or ".." components and
\* without doubled separators: normpath drops the trailing separators
RECURSIVE AbsPath(_)
AbsPath(p) ==
    IF Len(p) > 1 /\ Char(p, Len(p)) = Sep
    THEN AbsPath(SubSeq(p, 1, Len(p) - 1))
    ELSE p

-----------------------------------------------------------------------------
(* SQLite LIKE: % matches any sequence, _ any one character, letters        *)
(* compare case-insensitively (ASCII); there is no escape character        *)

RECURSIVE LikeMatch(_, _)
LikeMatch(pat, s) ==
    IF pat = "" THEN s = ""
    ELSE IF Char(pat, 1) = "%"
         THEN \E k \in 0..Len(s) : LikeMatch(Tail(pat), SubSeq(s, k + 1, Len(s)))
    ELSE IF s = "" THEN FALSE
    ELSE IF Char(pat, 1) = "_" THEN LikeMatch(Tail(pat), Tail(s))
    ELSE /\ LowerChar(Char(pat, 1)) = LowerChar(Char(s, 1))
         /\ LikeMatch(Tail(pat), Tail(s))

\* (evaluated once for the root patterns and the paths of the universe)
LikeMemo ==
    [a \in {r \o "%" : r \in Roots} \X UniverseSet |-> LikeMatch(a[1], a[2])]
Like(pat, s) ==
    IF <<pat, s>> \in DOMAIN LikeMemo THEN LikeMemo[<<pat, s>>]
    ELSE LikeMatch(pat, s)

-----------------------------------------------------------------------------
(* Configuration of file_control.py *)

EXCLUDED_DIRS ==
    { "node_modules", ".venv", "venv", ".cache", ".vscode", ".next", ".git",
      "__pycache__", "$RECYCLE.BIN", "System Volume Information", "AppData",
      "Support Files" \o "Program Files",   \* adjacent literals, no comma
      "Program Files (x86)", "Windows" }

IncludedDefault ==
    { ".txt", ".md", ".py", ".json", ".docx", ".pdf", ".xlsx", ".csv",
      ".pptx", ".html", ".js", ".ts" }

EXCLUDED_EXTENSIONS ==
    { ".dll", ".exe", ".sys", ".tmp", ".log", ".cache", ".bin", ".dat", ".iso" }

-----------------------------------------------------------------------------
(* The filesystem *)

\* an entry of the filesystem: its kind, what os.stat reports for it, and
\* whether os.stat raises for it (locked: the name is listed all the same)
NoEnt == [kind |-> "none", mtime |-> 0, size |-> 0, locked |-> FALSE]

Exists(f, p) == p \in DOMAIN f /\ f[p].kind # "none"
IsDir(f, p) == p \in DOMAIN f /\ f[p].kind = "dir"
\* os.path.isfile
IsFile(f, p) == p \in DOMAIN f /\ f[p].kind = "file"

\* p is an entry of directory dir
IsChildOf(p, dir) ==
    /\ Len(p) > Len(dir)
    /\ Basename(p) # ""
    /\ Join(dir, Basename(p)) = p

\* the directory holding p ("" for the top of the universe)
ParentOf ==
    [p \in UniverseSet |->
        IF \E q \in UniverseSet : IsChildOf(p, q)
        THEN CHOOSE q \in UniverseSet : IsChildOf(p, q)
        ELSE ""]

\* the paths of the universe that are entries of directory dir
ChildrenOf ==
    [dir \in UniverseSet |-> SelectSeq(Universe, LAMBDA p : IsChildOf(p, dir))]

\* q lies below directory p
Below(q, p) ==
    /\ Len(q) > Len(p) + 1
    /\ SubSeq(q, 1, Len(p) + 1) = p \o Sep

BelowSet == [p \in UniverseSet |-> {q \in UniverseSet : Below(q, p)}]

\* os.scandir(dir): the paths of the entries of dir
ListDir(f, dir) ==
    SelectSeq(ChildrenOf[dir], LAMBDA p : Exists(f, p))

\* one visited entry per name, as the loops of full_rebuild and
\* incremental_update meet them: per directory the pruned dirs, then the
\* files, then the sub-directories top-down; a directory os.stat fails
\* on cannot be listed either, and os.walk drops the error of scandir
RECURSIVE PrunedWalk(_, _), WalkInto(_, _)
PrunedWalk(f, top) ==
    IF ~IsDir(f, top) \/ f[top].locked THEN <<>>
    ELSE LET kids == ListDir(f, top)
             dirs == SelectSeq(kids, LAMBDA p :
                         IsDir(f, p) /\ Basename(p) \notin EXCLUDED_DIRS)
             nondirs == SelectSeq(kids, LAMBDA p : ~IsDir(f, p))
             here == [i \in 1..(Len(dirs) + Len(nondirs)) |->
                         IF i <= Len(dirs)
                         THEN [root |-> top, name |-> Basename(dirs[i]),
                               isdir |-> TRUE]
                         ELSE [root |-> top,
                               name |-> Basename(nondirs[i - Len(dirs)]),
                               isdir |-> FALSE]]
         IN  here \o WalkInto(f, dirs)
WalkInto(f, dirs) ==
    IF dirs = <<>> THEN <<>>
    ELSE PrunedWalk(f, Head(dirs)) \o WalkInto(f, Tail(dirs))

-----------------------------------------------------------------------------
(* Extension filter *)

\* os.path.splitext(filename)[1].lower()
LowerExt(filename) == Lower(SplitExt(filename)[2])

\* (evaluated once for the names of the universe)
LowerExtMemo == [n \in {Basename(p) : p \in UniverseSet} |-> LowerExt(n)]
ExtOf(filename) ==
    IF filename \in DOMAIN LowerExtMemo
    THEN LowerExtMemo[filename] ELSE LowerExt(filename)

should_index_file(filename) ==
    LET ext == ExtOf(filename)
    IN  IF ext \in EXCLUDED_EXTENSIONS THEN FALSE
        ELSE IF ~INCLUDED_EXTENSIONS.isNone
             THEN ext \in INCLUDED_EXTENSIONS.exts
        ELSE TRUE

-----------------------------------------------------------------------------
(* Table `files` *)

HasPath(tbl, p) == \E r \in tbl : r.path = p
RowOf(tbl, p) == CHOOSE r \in tbl : r.path = p

NewRow(id, name, path, type, ext, parent, st) ==
    [id |-> id, name |-> name, path |-> path, type |-> type,
     extension |-> ext, parent |-> parent,
     last_modified |-> st.mtime, size |-> st.size]

\* INSERT OR IGNORE INTO files (...): path is UNIQUE, id AUTOINCREMENT; an
\* ignored insert has taken its id from sqlite_sequence all the same
\* INSERT OR REPLACE in the place of INSERT OR IGNORE: a stored path loses
\* its row to a new one
InsertOrReplace(db, name, path, type, ext, parent, st) ==
    [db EXCEPT
       !.files = {r \in @ : r.path # path}
                 \cup {NewRow(db.seq + 1, name, path, type, ext, parent, st)},
       !.seq = @ + 1]

InsertOrIgnore(db, name, path, type, ext, parent, st) ==
    IF HasPath(db.files, path) THEN [db EXCEPT !.seq = @ + 1]
    ELSE [db EXCEPT
            !.files = @ \cup {NewRow(db.seq + 1, name, path, type, ext,
                                     parent, st)},
            !.seq = @ + 1]

-----------------------------------------------------------------------------
(* Full rebuild *)

\* (the insert made with whatever os.stat left, its error unchecked)
FullRebuildEntryUnchecked(db, f, e) ==
    LET path == Join(e.root, e.name)
        parent == Basename(e.root)
    IN  IF e.isdir
        THEN InsertOrIgnore(db, e.name, path, "folder", "", parent, f[path])
        ELSE IF ~should_index_file(e.name) THEN db
        ELSE InsertOrIgnore(db, e.name, path, "file",
                            ExtOf(e.name), parent, f[path])

\* one name of the walk: try: stat = os.stat(path) / except: continue,
\* then the insert
FullRebuildEntry(db, f, e) ==
    LET path == Join(e.root, e.name)
        parent == Basename(e.root)
    IN  IF e.isdir
        THEN (IF f[path].locked THEN db
              ELSE InsertOrIgnore(db, e.name, path, "folder", "", parent,
                                  f[path]))
        ELSE IF ~should_index_file(e.name) THEN db
        ELSE IF f[path].locked THEN db
        ELSE InsertOrIgnore(db, e.name, path, "file",
                            ExtOf(e.name), parent, f[path])

RECURSIVE FullRebuildLoop(_, _, _)
FullRebuildLoop(db, f, walk) ==
    IF walk = <<>> THEN db
    ELSE FullRebuildLoop(FullRebuildEntry(db, f, Head(walk)), f, Tail(walk))

\* full_rebuild(root_path) on the database db = [files, seq]
full_rebuild(db, f, root_path) ==
    FullRebuildLoop(db, f, PrunedWalk(f, root_path))

-----------------------------------------------------------------------------
(* Incremental update *)

\* SELECT path, last_modified FROM files WHERE path LIKE root_path%
\* the stored map loaded with the separator of another platform appended
\* to the root
PrefixLoadBackslash(tbl, root_path) ==
    {r \in tbl : Like(root_path \o "\\%", r.path)}

PrefixLoad(tbl, root_path) ==
    {r \in tbl : Like(root_path \o "%", r.path)}

\* an iteration whose UPDATE derives the kind and the extension again
IncrementalEntryRederives(st, db_files, f, e) ==
    LET path == Join(e.root, e.name)
        parent == Basename(e.root)
        seen == [st EXCEPT !.current = @ \cup {path}]
        isfile == IsFile(f, path)
        ext == IF isfile THEN ExtOf(e.name) ELSE ""
        type == IF isfile THEN "file" ELSE "folder"
    IN  IF st.raised # "" THEN st
        ELSE IF f[path].locked THEN seen
        ELSE IF isfile /\ ~should_index_file(e.name) THEN seen
        ELSE IF ~HasPath(db_files, path)
             THEN IF HasPath(st.files, path)
                  THEN [seen EXCEPT !.raised = "IntegrityError"]
                  ELSE [seen EXCEPT
                          !.files = @ \cup {NewRow(st.seq + 1, e.name, path,
                                               type, ext, parent, f[path])},
                          !.seq = @ + 1]
        ELSE IF RowOf(db_files, path).last_modified # f[path].mtime
             THEN [seen EXCEPT
                     !.files = {IF r.path = path
                                THEN [r EXCEPT !.last_modified = f[path].mtime,
                                               !.size = f[path].size,
                                               !.type = type,
                                               !.extension = ext]
                                ELSE r : r \in st.files}]
        ELSE seen

\* one iteration of the walk loop; st = [files, seq, current, raised]
IncrementalEntry(st, db_files, f, e) ==
    LET path == Join(e.root, e.name)
        parent == Basename(e.root)
        seen == [st EXCEPT !.current = @ \cup {path}]
        isfile == IsFile(f, path)
        ext == IF isfile THEN ExtOf(e.name) ELSE ""
        type == IF isfile THEN "file" ELSE "folder"
    IN  IF st.raised # "" THEN st
        ELSE IF f[path].locked THEN seen
        ELSE IF isfile /\ ~should_index_file(e.name) THEN seen
        ELSE IF ~HasPath(db_files, path)
             THEN IF HasPath(st.files, path)
                  THEN [seen EXCEPT !.raised = "IntegrityError"]
                  ELSE [seen EXCEPT
                          !.files = @ \cup {NewRow(st.seq + 1, e.name, path,
                                               type, ext, parent, f[path])},
                          !.seq = @ + 1]
        ELSE IF RowOf(db_files, path).last_modified # f[path].mtime
             THEN [seen EXCEPT
                     !.files = {IF r.path = path
                                THEN [r EXCEPT !.last_modified = f[path].mtime,
                                               !.size = f[path].size]
                                ELSE r : r \in st.files}]
        ELSE seen

\* a walk loop that calls os.stat before it notes the path as present
RECURSIVE IncrementalLoopStatFirst(_, _, _, _)
IncrementalLoopStatFirst(st, db_files, f, walk) ==
    IF walk = <<>> THEN st
    ELSE IncrementalLoopStatFirst(
             IF f[Join(Head(walk).root, Head(walk).name)].locked THEN st
             ELSE IncrementalEntry(st, db_files, f, Head(walk)),
             db_files, f, Tail(walk))

RECURSIVE IncrementalLoop(_, _, _, _)
IncrementalLoop(st, db_files, f, walk) ==
    IF walk = <<>> THEN st
    ELSE IncrementalLoop(IncrementalEntry(st, db_files, f, Head(walk)),
                         db_files, f, Tail(walk))

\* the paths the closing loop deletes
DeletedPaths(db_files, current_paths) ==
    {r.path : r \in db_files} \ current_paths

\* incremental_update(root_path) on the database db = [files, seq]; an
\* exception leaves the transaction uncommitted
incremental_update(db, f, root_path) ==
    LET db_files == PrefixLoad(db.files, root_path)
        st == IncrementalLoop([files |-> db.files, seq |-> db.seq,
                               current |-> {}, raised |-> ""],
                              db_files, f, PrunedWalk(f, root_path))
        deleted == DeletedPaths(db_files, st.current)
    IN  IF st.raised # ""
        THEN [files |-> db.files, seq |-> db.seq, raised |-> st.raised]
        ELSE [files |-> {r \in st.files : r.path \notin deleted},
              seq |-> st.seq, raised |-> ""]

-----------------------------------------------------------------------------
(* Search *)

MIN_SCORE == 70
CandidateCap == 300
SecondsPerDay == 86400

Whitespace == {" ", "\t", "\n", "\r", "\f"}

\* str.split(): the maximal runs of non-whitespace characters
RECURSIVE SplitWords(_, _)
SplitWords(s, word) ==
    IF s = "" THEN (IF word = "" THEN <<>> ELSE <<word>>)
    ELSE IF Char(s, 1) \in Whitespace
         THEN (IF word = "" THEN <<>> ELSE <<word>>) \o SplitWords(Tail(s), "")
    ELSE SplitWords(Tail(s), word \o Char(s, 1))

Split(s) == SplitWords(s, "")

\* " ".join(words)
RECURSIVE JoinWords(_)
JoinWords(words) ==
    IF words = <<>> THEN ""
    ELSE IF Len(words) = 1 THEN words[1]
    ELSE words[1] \o " " \o JoinWords(Tail(words))

\* str.replace(old, " ") for a single character old
RECURSIVE ReplaceChar(_, _)
ReplaceChar(s, old) ==
    IF s = "" THEN ""
    ELSE (IF Char(s, 1) = old THEN " " ELSE Char(s, 1))
         \o ReplaceChar(Tail(s), old)

normalize_filename(name) ==
    LET stem == SplitExt(name)[1]
        spaced == ReplaceChar(ReplaceChar(stem, "_"), "-")
    IN  Lower(JoinWords(Split(spaced)))

\* the printable ASCII characters in code order (the order sorted() uses);
\* the grave accent, between _ and a, is left out
Ascii ==
    " !\"#$%&'()*+,-./0123456789:;<=>?@ABCDEFGHIJKLMNOPQRSTUVWXYZ[\\]^_abcdefghijklmnopqrstuvwxyz{|}~"

CodeOf(c) == CHOOSE i \in 1..Len(Ascii) : Char(Ascii, i) = c

\* a < b for strings
RECURSIVE StrLess(_, _)
StrLess(a, b) ==
    IF b = "" THEN FALSE
    ELSE IF a = "" THEN TRUE
    ELSE IF Char(a, 1) = Char(b, 1) THEN StrLess(Tail(a), Tail(b))
    ELSE CodeOf(Char(a, 1)) < CodeOf(Char(b, 1))

\* sorted(tokens) for a set of strings
RECURSIVE SortedTokens(_)
SortedTokens(T) ==
    IF T = {} THEN <<>>
    ELSE LET m == CHOOSE x \in T : \A y \in T \ {x} : StrLess(x, y)
         IN  <<m>> \o SortedTokens(T \ {m})

Max(a, b) == IF a >= b THEN a ELSE b

\* one row of the longest-common-subsequence table: prev is the row of
\* the characters before c, acc the part of this row already known
RECURSIVE LcsRow(_, _, _, _)
LcsRow(prev, a, c, acc) ==
    LET i == Len(acc) + 1
        left == IF i = 1 THEN 0 ELSE acc[i - 1]
        diag == IF i = 1 THEN 0 ELSE prev[i - 1]
    IN  IF i > Len(a) THEN acc
        ELSE LcsRow(prev, a, c,
                    Append(acc, IF Char(a, i) = c THEN diag + 1
                                ELSE Max(left, prev[i])))

\* the last row of the table; each row is complete (one entry for every
\* character of a) before the next one is begun
RECURSIVE LcsRows(_, _, _)
LcsRows(prev, a, b) ==
    IF b = "" \/ Len(prev) # Len(a) THEN prev
    ELSE LcsRows(LcsRow(prev, a, Char(b, 1), <<>>), a, Tail(b))

LcsLen(a, b) ==
    IF a = "" \/ b = "" THEN 0
    ELSE LcsRows([i \in 1..Len(a) |-> 0], a, b)[Len(a)]

\* rapidfuzz Indel distance: insertions and deletions only
IndelDistance(a, b) == Len(a) + Len(b) - 2 * LcsLen(a, b)

\* scores are exact fractions [n, d] with d > 0
Frac(n, d) == [n |-> n, d |-> d]
FracLess(x, y) == x.n * y.d < y.n * x.d
FracMax(x, y) == IF FracLess(x, y) THEN y ELSE x

\* rapidfuzz norm_distance: 100 - 100 * dist / lensum
NormDistance(dist, lensum) ==
    IF lensum > 0 THEN Frac(100 * lensum - 100 * dist, lensum)
    ELSE Frac(100, 1)

\* " ".join(sorted(tokens))
JoinSorted(T) == JoinWords(SortedTokens(T))

\* the three ratios of token_set_ratio computed from the joined strings:
\* sect is the joined intersection, ab and ba the joined differences
SetRatios(sect_len, gap, ab, ba) ==
    [res |-> NormDistance(IndelDistance(ab, ba),
                          2 * (sect_len + gap) + Len(ab) + Len(ba)),
     sect_ab_ratio |-> NormDistance(gap + Len(ab),
                                    2 * sect_len + gap + Len(ab)),
     sect_ba_ratio |-> NormDistance(gap + Len(ba),
                                    2 * sect_len + gap + Len(ba))]

BestRatio(sect_len, ratios) ==
    IF sect_len = 0 THEN ratios.res
    ELSE FracMax(ratios.res,
                 FracMax(ratios.sect_ab_ratio, ratios.sect_ba_ratio))

TokenSetRatio(tokens_a, tokens_b, sect_len) ==
    IF tokens_a = {} \/ tokens_b = {} THEN Frac(0, 1)
    ELSE IF /\ tokens_a \cap tokens_b # {}
            /\ (tokens_a \ tokens_b = {} \/ tokens_b \ tokens_a = {})
         THEN Frac(100, 1)
    ELSE BestRatio(sect_len,
                   SetRatios(sect_len, IF sect_len # 0 THEN 1 ELSE 0,
                             JoinSorted(tokens_a \ tokens_b),
                             JoinSorted(tokens_b \ tokens_a)))

TokenSet(words) == {words[i] : i \in 1..Len(words)}

SectLen(tokens_a, tokens_b) == Len(JoinSorted(tokens_a \cap tokens_b))

\* rapidfuzz fuzz.token_set_ratio(s1, s2), no processor, no cutoff
TokenSetRatioOf(tokens_a, tokens_b) ==
    TokenSetRatio(tokens_a, tokens_b, SectLen(tokens_a, tokens_b))

token_set_ratio(s1, s2) ==
    TokenSetRatioOf(TokenSet(Split(s1)), TokenSet(Split(s2)))

\* the queries handed to search_files
Queries == {"", " _-", "zzz", "m.txt", "Program-Files", "d a"}

Limits == {5, 1}

\* the targets the utterance loop and the direct calls hand to
\* handle_file_action, stripped
SearchTargets == {"a", "ab", "m", "2", "d", ""}

\* the queries of the ranking runs; a percent sign is a LIKE wildcard
RankQueries == {"doc", "d", "r", "q4 budget", "q%budget"}

MemoQueries == Queries \cup SearchTargets \cup RankQueries

extension_keywords ==
    { <<"pdf", ".pdf">>, <<"word", ".docx">>, <<"doc", ".docx">>,
      <<"excel", ".xlsx">>, <<"sheet", ".xlsx">>,
      <<"powerpoint", ".pptx">>, <<"presentation", ".pptx">> }

\* (evaluated once for the queries and the names and paths of the universe)
NormalizedQuery == [q \in MemoQueries |-> normalize_filename(q)]
NormalizedName ==
    [n \in {Basename(p) : p \in UniverseSet} |-> normalize_filename(n)]
LowerPath == [p \in UniverseSet |-> Lower(p)]

FuzzyMemo ==
    [a \in {NormalizedQuery[q] : q \in MemoQueries}
           \X ({NormalizedName[n] : n \in DOMAIN NormalizedName}
               \cup {LowerPath[p] : p \in UniverseSet})
        |-> token_set_ratio(a[1], a[2])]
Fuzzy(s1, s2) ==
    IF <<s1, s2>> \in DOMAIN FuzzyMemo THEN FuzzyMemo[<<s1, s2>>]
    ELSE token_set_ratio(s1, s2)

NormalizeQ(q) ==
    IF q \in DOMAIN NormalizedQuery THEN NormalizedQuery[q]
    ELSE normalize_filename(q)
NormalizeN(n) ==
    IF n \in DOMAIN NormalizedName THEN NormalizedName[n]
    ELSE normalize_filename(n)
LowerP(p) == IF p \in DOMAIN LowerPath THEN LowerPath[p] ELSE Lower(p)

\* WHERE (name LIKE %token% OR path LIKE %token%) AND ... for every token
PrefilterMatch(row, tokens) ==
    \A i \in 1..Len(tokens) :
       \/ LikeMatch("%" \o tokens[i] \o "%", row.name)
       \/ LikeMatch("%" \o tokens[i] \o "%", row.path)

PrefilterMemo ==
    [a \in MemoQueries \X UniverseSet |->
        PrefilterMatch([name |-> Basename(a[2]), path |-> a[2]],
                       Split(NormalizedQuery[a[1]]))]

\* the rows of a table in rowid order
RECURSIVE RowsById(_)
RowsById(tbl) ==
    IF tbl = {} THEN <<>>
    ELSE LET r == CHOOSE x \in tbl : \A y \in tbl : x.id <= y.id
         IN  <<r>> \o RowsById(tbl \ {r})

\* SELECT ... FROM files WHERE ... LIMIT 300 (a table scan, in rowid order)
QueryCandidates(tbl, query, tokens) ==
    LET hit(r) == IF <<query, r.path>> \in DOMAIN PrefilterMemo
                     /\ r.name = Basename(r.path)
                  THEN PrefilterMemo[<<query, r.path>>]
                  ELSE PrefilterMatch(r, tokens)
        rows == RowsById({r \in tbl : hit(r)})
    IN  SubSeq(rows, 1, IF Len(rows) < CandidateCap THEN Len(rows)
                        ELSE CandidateCap)

\* exact-match boost and filename-priority boost
NameBoosts(normalized_query, filename) ==
    (IF normalized_query = filename THEN 40
     ELSE IF Contains(filename, normalized_query) THEN 20
     ELSE 0)
    + (IF Contains(filename, normalized_query) THEN 15 ELSE 0)

\* (a boost that grows with the age instead)
RecencyBoostForOld(age) ==
    IF age < SecondsPerDay THEN 0
    ELSE IF age < 7 * SecondsPerDay THEN 5
    ELSE IF age < 30 * SecondsPerDay THEN 10
    ELSE 20

\* recency boost: the age of the row in seconds
RecencyBoost(age) ==
    IF age < SecondsPerDay THEN 20
    ELSE IF age < 7 * SecondsPerDay THEN 10
    ELSE IF age < 30 * SecondsPerDay THEN 5
    ELSE 0

ExtensionBoost(normalized_query, ext) ==
    IF \E kw \in extension_keywords :
          Contains(normalized_query, kw[1]) /\ ext = kw[2]
    THEN 25 ELSE 0

FolderBoost(query_tokens, path_lower) ==
    5 * Cardinality({i \in 1..Len(query_tokens) :
                       Contains(path_lower, query_tokens[i])})

\* fuzzy_score + boosts - depth_penalty, the penalty counted in halves
\* (path_lower.count("\\") * 0.5)
ScoreSum(fuzzy_score, boosts, depth_halves) ==
    Frac(2 * fuzzy_score.n + (2 * boosts - depth_halves) * fuzzy_score.d,
         2 * fuzzy_score.d)

ScoreOf(row, normalized_query, t, filename, path_lower) ==
    ScoreSum(FracMax(Fuzzy(normalized_query, filename),
                     Fuzzy(normalized_query, path_lower)),
             NameBoosts(normalized_query, filename)
             + RecencyBoost(t - row.last_modified)
             + ExtensionBoost(normalized_query, row.extension)
             + FolderBoost(Split(normalized_query), path_lower),
             CountChar(path_lower, "\\"))

\* the composite score of a candidate row, as a fraction
final_score(row, normalized_query, t) ==
    ScoreOf(row, normalized_query, t, NormalizeN(row.name), LowerP(row.path))

\* (the matches left in prefilter order)
SortByScoreSkipped(ms) == ms

\* a sort that puts the lowest score first
RECURSIVE SortByScoreAscending(_)
SortByScoreAscending(ms) ==
    IF ms = <<>> THEN <<>>
    ELSE LET worst == CHOOSE i \in 1..Len(ms) :
                       /\ \A j \in 1..Len(ms) : ~FracLess(ms[j].score, ms[i].score)
                       /\ \A j \in 1..(i - 1) : FracLess(ms[i].score, ms[j].score)
         IN  <<ms[worst]>>
             \o SortByScoreAscending(SubSeq(ms, 1, worst - 1)
                                     \o SubSeq(ms, worst + 1, Len(ms)))

\* matches.sort(key=score, reverse=True): stable, descending
RECURSIVE SortByScore(_)
SortByScore(ms) ==
    IF ms = <<>> THEN <<>>
    ELSE LET best == CHOOSE i \in 1..Len(ms) :
                       /\ \A j \in 1..Len(ms) : ~FracLess(ms[i].score, ms[j].score)
                       /\ \A j \in 1..(i - 1) : FracLess(ms[j].score, ms[i].score)
         IN  <<ms[best]>>
             \o SortByScore(SubSeq(ms, 1, best - 1)
                            \o SubSeq(ms, best + 1, Len(ms)))

FileEntry(row) ==
    [id |-> row.id, name |-> row.name, path |-> row.path, type |-> row.type,
     extension |-> row.extension]

\* the rows with their scores
ScoredRows(rows, normalized_query, t) ==
    [i \in 1..Len(rows) |->
       [score |-> final_score(rows[i], normalized_query, t),
        row |-> rows[i]]]

\* the matches: final_score >= MIN_SCORE
AboveMinScore(scored) ==
    SelectSeq(scored, LAMBDA m : ~FracLess(m.score, Frac(MIN_SCORE, 1)))

\* the whole list, whatever the limit
TopEntriesAll(matches, limit) ==
    [i \in 1..Len(matches) |-> FileEntry(matches[i].row)]

\* matches[:limit] as FileEntry values
TopEntries(matches, limit) ==
    [i \in 1..(IF Len(matches) < limit THEN Len(matches) ELSE limit) |->
       FileEntry(matches[i].row)]

RankRows(rows, normalized_query, t, limit) ==
    TopEntries(SortByScore(AboveMinScore(
                  ScoredRows(rows, normalized_query, t))), limit)

SearchTokens(tbl, t, query, limit, normalized_query, tokens) ==
    IF tokens = <<>>
    THEN [raised |-> "OperationalError", result |-> <<>>]
    ELSE [raised |-> "",
          result |-> RankRows(QueryCandidates(tbl, query, tokens),
                              normalized_query, t, limit)]

SearchNormalized(tbl, t, query, limit, normalized_query) ==
    SearchTokens(tbl, t, query, limit, normalized_query,
                 Split(normalized_query))

\* search_files(query, limit): [raised, result]
search_files(tbl, t, query, limit) ==
    SearchNormalized(tbl, t, query, limit, NormalizeQ(query))

-----------------------------------------------------------------------------
(* open_entry and handle_file_action *)

\* str.strip()
RECURSIVE LStrip(_)
LStrip(s) ==
    IF s # "" /\ Char(s, 1) \in Whitespace THEN LStrip(Tail(s)) ELSE s

RECURSIVE RStrip(_)
RStrip(s) ==
    IF s # "" /\ Char(s, Len(s)) \in Whitespace
    THEN RStrip(SubSeq(s, 1, Len(s) - 1)) ELSE s

Strip(s) == RStrip(LStrip(s))

\* open_entry(entry): the OS call succeeds (ok) or fails; a failure is
\* caught and reported as False. The call is appended to the log.
open_entry(log, entry, ok) == Append(log, [entry |-> entry, ok |-> ok])

\* the OS calls of open_entry under a shell: subprocess.Popen starts
\* explorer with the path as its argument and raises only when the program
\* cannot be started (what explorer does with the path is not reported
\* back); os.startfile(path) is there on Windows only, and raises when the
\* path is missing or no application is registered for it
OsOpen(entry, f, shell) ==
    IF entry.type = "folder"
    THEN (IF shell.explorer THEN "started" ELSE "FileNotFoundError")
    ELSE IF ~shell.startfile THEN "AttributeError"
    ELSE IF ~Exists(f, entry.path) THEN "FileNotFoundError"
    ELSE IF ~shell.handler THEN "OSError"
    ELSE "started"

\* try: ... return True / except Exception: return False
OpenReturns(outcome) == outcome = "started"

Shells == [explorer : BOOLEAN, startfile : BOOLEAN, handler : BOOLEAN]

\* [m for m in matches if m.type == type]
OfType(matches, type) == SelectSeq(matches, LAMBDA m : m.type = type)

\* no handle_file_action call has returned
NoRet == [kind |-> "", list |-> <<>>]

\* what handle_file_action returns: False, None, or a list of entries
RetFalse == [kind |-> "False", list |-> <<>>]
RetNone == [kind |-> "None", list |-> <<>>]
RetList(entries) == [kind |-> "list", list |-> entries]

Returned(r, log) == [raised |-> "", ret |-> r, opened |-> log]
Raised(e, log) == [raised |-> e, ret |-> NoRet, opened |-> log]

\* open of a kind that hands every non-empty list back, a single entry
\* included
OpenOfKindNeverOpens(entries, log, ok) ==
    IF entries = <<>> THEN Returned(RetNone, log)
    ELSE Returned(RetList(entries), log)

\* the branches `action == "open" and type == ...` on the filtered list
OpenOfKind(entries, log, ok) ==
    IF entries = <<>> THEN Returned(RetNone, log)
    ELSE IF Len(entries) = 1
         THEN Returned(RetNone, open_entry(log, entries[1], ok))
         ELSE Returned(RetList(entries), log)

\* os.listdir(folder.path) of the branch `action == "list"`
ListDirError(f, path) ==
    IF ~Exists(f, path) THEN "FileNotFoundError"
    ELSE IF f[path].locked THEN "PermissionError"
    ELSE IF IsDir(f, path) THEN ""
    ELSE "NotADirectoryError"

ListFolder(folders, f, log) ==
    IF folders = <<>> THEN Returned(RetNone, log)
    ELSE IF ListDirError(f, folders[1].path) # ""
         THEN Raised(ListDirError(f, folders[1].path), log)
         ELSE Returned(RetNone, log)

\* handle_file_action after the search, on its matches
ActOnMatches(matches, f, action, type, log, ok) ==
    IF matches = <<>> THEN Returned(RetFalse, log)
    ELSE IF action = "open" /\ type = "file"
         THEN OpenOfKind(OfType(matches, "file"), log, ok)
    ELSE IF action = "open" /\ type = "folder"
         THEN OpenOfKind(OfType(matches, "folder"), log, ok)
    ELSE IF action = "list" /\ type = "folder"
         THEN ListFolder(OfType(matches, "folder"), f, log)
    ELSE Returned(RetFalse, log)

ActOnSearch(found, f, action, type, log, ok) ==
    IF found.raised # "" THEN Raised(found.raised, log)
    ELSE ActOnMatches(found.result, f, action, type, log, ok)

\* the default of the parameter limit of search_files
DefaultLimit == 5

\* handle_file_action(action, type, target): [raised, ret, opened]
handle_file_action(tbl, t, f, action, type, target, log, ok) ==
    ActOnSearch(search_files(tbl, t, Strip(target), DefaultLimit), f,
                Lower(Strip(action)), type, log, ok)

-----------------------------------------------------------------------------
(* The utterance loop of transcript.py: text helpers *)

StartsWith(s, pre) == Len(s) >= Len(pre) /\ SubSeq(s, 1, Len(pre)) = pre

\* str.replace(old, new): every occurrence, left to right
RECURSIVE ReplaceAll(_, _, _)
ReplaceAll(s, old, new) ==
    IF s = "" THEN ""
    ELSE IF StartsWith(s, old)
         THEN new \o ReplaceAll(SubSeq(s, Len(old) + 1, Len(s)), old, new)
         ELSE Char(s, 1) \o ReplaceAll(Tail(s), old, new)

Digits == "0123456789"
IsDigit(c) == \E i \in 1..10 : Char(Digits, i) = c
DigitValue(c) == (CHOOSE i \in 1..10 : Char(Digits, i) = c) - 1

\* a character of a word in a regular expression (\w, ASCII)
IsWordChar(c) ==
    \/ IsDigit(c) \/ c = "_"
    \/ \E i \in 1..26 : Char(LowerChars, i) = c \/ Char(UpperChars, i) = c

\* string.punctuation (the grave accent left out: no text here has it)
Punctuation == "!\"#$%&'()*+,-./:;<=>?@[\\]^_{|}~"

\* str.translate(str.maketrans('', '', string.punctuation))
RECURSIVE DropPunctuation(_)
DropPunctuation(s) ==
    IF s = "" THEN ""
    ELSE (IF \E i \in 1..Len(Punctuation) : Char(Punctuation, i) = Char(s, 1)
          THEN "" ELSE Char(s, 1)) \o DropPunctuation(Tail(s))

ignore_list ==
    {"the", "you", "thank you", "thanks for watching", "subscribe", "bye",
     "okay", "ok"}

\* helpers.remove_leading_the(final_text)
CleanedOrNoise(cleaned_text) ==
    IF cleaned_text = "" \/ cleaned_text \in ignore_list
       \/ Len(cleaned_text) < 2
    THEN "" ELSE cleaned_text

remove_leading_the(final_text) ==
    CleanedOrNoise(DropPunctuation(Lower(Strip(final_text))))

WAKE_WORD == "alice"

\* helpers.extract_command(text) is not None: WAKE_REGEX matches, i.e. the
\* text starts, after blanks, with the wake word (any case) and a word
\* boundary
WakeAt(t) ==
    /\ StartsWith(Lower(t), WAKE_WORD)
    /\ (Len(t) = Len(WAKE_WORD) \/ ~IsWordChar(Char(t, Len(WAKE_WORD) + 1)))

extract_command(text) == WakeAt(LStrip(text))

\* re.sub(rf"\b{word}\b", digit, text)
RECURSIVE SubWord(_, _, _, _)
SubWord(text, prev, word, digit) ==
    IF text = "" THEN ""
    ELSE IF /\ StartsWith(text, word)
            /\ (prev = "" \/ ~IsWordChar(prev))
            /\ (Len(text) = Len(word)
                \/ ~IsWordChar(Char(text, Len(word) + 1)))
         THEN digit \o SubWord(SubSeq(text, Len(word) + 1, Len(text)),
                               Char(word, Len(word)), word, digit)
         ELSE Char(text, 1) \o SubWord(Tail(text), Char(text, 1), word, digit)

number_words == <<"zero", "one", "two", "three", "four", "five">>

\* helpers.normalize_spoken_numbers(text)
RECURSIVE SubWords(_, _)
SubWords(text, i) ==
    IF i > Len(number_words) THEN text
    ELSE SubWords(SubWord(text, "", number_words[i], Char(Digits, i)), i + 1)

normalize_spoken_numbers(text) == SubWords(text, 1)

\* int(re.search(r"\d+", text).group()), or -1 when nothing matches
RECURSIVE DigitRun(_, _)
DigitRun(text, n) ==
    IF text # "" /\ IsDigit(Char(text, 1))
    THEN DigitRun(Tail(text), 10 * n + DigitValue(Char(text, 1)))
    ELSE n

RECURSIVE FirstNumber(_)
FirstNumber(text) ==
    IF text = "" THEN -1
    ELSE IF IsDigit(Char(text, 1)) THEN DigitRun(text, 0)
         ELSE FirstNumber(Tail(text))

\* the phrases of the pending-selection block
cancel_phrases ==
    {"cancel", "never mind", "forget it", "leave it", "stop that",
     "don't open", "do not open"}

IsCancel(lower_text) == \E ph \in cancel_phrases : Contains(lower_text, ph)

\* the request to show the options again, without the word "repeat" and
\* the other phrases after it
IsShowAgainShowOnly(lower_text) ==
    /\ Contains(lower_text, "show")
    /\ \E w \in {"option", "choices", "list"} : Contains(lower_text, w)

IsShowAgain(lower_text) ==
    \/ /\ Contains(lower_text, "show")
       /\ \E w \in {"option", "choices", "list"} : Contains(lower_text, w)
    \/ Contains(lower_text, "repeat")
    \/ Contains(lower_text, "what were")
    \/ Contains(lower_text, "show again")
    \/ Contains(lower_text, "say again")

HasSelectVerb(lower_text) ==
    \E w \in {"open", "select", "choose", "pick"} : Contains(lower_text, w)

ordinal_map == <<"first", "second", "third", "fourth", "fifth">>

\* the zero-based index of the first word of ordinal_map the text
\* contains, or -1
OrdinalIndex(lower_text) ==
    IF \E i \in 1..Len(ordinal_map) : Contains(lower_text, ordinal_map[i])
    THEN (CHOOSE i \in 1..Len(ordinal_map) :
            /\ Contains(lower_text, ordinal_map[i])
            /\ \A j \in 1..(i - 1) : ~Contains(lower_text, ordinal_map[j]))
         - 1
    ELSE -1

\* the fast paths of the listening mode, in the order they are tested
command_keywords == <<"open ", "close ", "focus ", "maximize", "minimize">>

Route(lower_text) ==
    IF Contains(lower_text, "open the folder")
       \/ Contains(lower_text, "open folder") THEN "open folder"
    ELSE IF Contains(lower_text, "open the file")
            \/ Contains(lower_text, "open file") THEN "open file"
    ELSE IF Contains(lower_text, "list the folder")
            \/ Contains(lower_text, "what files are in the folder")
         THEN "list folder"
    ELSE IF \E i \in 1..Len(command_keywords) :
               StartsWith(lower_text, command_keywords[i]) THEN "app"
    ELSE "agent"

\* lower_text.replace(a, "").replace(b, "").strip()
CutPhrases(lower_text, a, b) ==
    Strip(ReplaceAll(ReplaceAll(lower_text, a, ""), b, ""))

RouteTarget(lower_text) ==
    IF Route(lower_text) = "open folder"
    THEN CutPhrases(lower_text, "open the folder", "open folder")
    ELSE IF Route(lower_text) = "open file"
    THEN CutPhrases(lower_text, "open the file", "open file")
    ELSE IF Route(lower_text) = "list folder"
    THEN CutPhrases(lower_text, "list the folder",
                    "what files are in the folder")
    ELSE ""

-----------------------------------------------------------------------------
(* The utterance loop of transcript.py: one finalized utterance *)

\* an entry of the log of the handlers an utterance went to
Handler(fn, action, kind, target) ==
    [fn |-> fn, action |-> action, kind |-> kind, target |-> target]

\* SessionState.__init__ and SessionState.clear(): no pending matches, no
\* action type
NoPending == [pending_matches |-> <<>>, last_action_type |-> "None"]

\* SessionState.set_pending(matches, action_type)
set_pending(matches, action_type) ==
    [pending_matches |-> matches, last_action_type |-> action_type]

\* SessionState.has_pending()
has_pending(ses) == Len(ses.pending_matches) > 0

\* helpers.parse_intent(command_text): <<intent, target>>, <<"", "">> for
\* (None, None)
intent_verbs ==
    << <<"focus", "focus">>, <<"switch to", "focus">>, <<"open", "open">>,
       <<"launch", "open">>, <<"close", "close">>, <<"exit", "close">>,
       <<"maximize", "maximize">>, <<"minimize", "minimize">> >>

RECURSIVE IntentFrom(_, _)
IntentFrom(text, i) ==
    IF i > Len(intent_verbs) THEN <<"", "">>
    ELSE IF StartsWith(text, intent_verbs[i][1])
         THEN <<intent_verbs[i][2],
                Strip(SubSeq(text, Len(intent_verbs[i][1]) + 1, Len(text)))>>
         ELSE IntentFrom(text, i + 1)

parse_intent(command_text) ==
    IF command_text = "" THEN <<"", "">>
    ELSE IntentFrom(Lower(Strip(command_text)), 1)

\* helpers.clean_target(text): the quotes and the punctuation it strips
\* from the ends are gone from every finalized text already
clean_target(text) == JoinWords(Split(Strip(text)))

\* the state an utterance is processed on, and leaves:
\* [session, listening, opened, handled, raised]
Went(st, h) == [st EXCEPT !.handled = Append(@, h)]

\* the fast paths `open folder` / `open file`
FileFastPathDone(st, out, kind, target) ==
    [st EXCEPT
       !.raised = out.raised,
       !.opened = out.opened,
       !.session = IF out.raised = "" /\ out.ret.kind = "list"
                   THEN set_pending(out.ret.list, kind) ELSE @,
       !.handled = Append(@, Handler("handle_file_action", "open", kind,
                                     target))]

FileFastPath(st, tbl, t, f, kind, target, ok) ==
    FileFastPathDone(st,
        handle_file_action(tbl, t, f, "open", kind, target, st.opened, ok),
        kind, target)

\* the fast path `list the folder`
ListFastPathDone(st, out, target) ==
    [st EXCEPT
       !.raised = out.raised,
       !.opened = out.opened,
       !.handled = Append(@, Handler("handle_file_action", "list_folder",
                                     "folder", target))]

ListFastPath(st, tbl, t, f, target, ok) ==
    ListFastPathDone(st,
        handle_file_action(tbl, t, f, "list_folder", "folder", target,
                           st.opened, ok),
        target)

\* the fast path of the app commands: an exception of handle_app_action
\* is caught
AppFastPathOn(st, intent) ==
    IF intent[1] # "" /\ clean_target(intent[2]) # ""
    THEN Went(st, Handler("handle_app_action", intent[1], "app",
                          clean_target(intent[2])))
    ELSE st

AppFastPath(st, text) == AppFastPathOn(st, parse_intent(text))

\* helpers.agent_call(final_text) on the tasks the agent replied with:
\* an app task goes to handle_app_action, a file or folder task to
\* handle_file_action with a fourth argument (location), which the
\* function does not take
\* the actions app_control.handle_app_action knows; it raises ValueError
\* on any other
app_actions == {"focus", "open", "close", "maximize", "minimize"}

AgentTask(st, task) ==
    IF task.intent = "system"
    THEN IF task.type = "app"
         THEN IF Lower(Strip(task.action)) \in app_actions
              THEN Went(st, Handler("handle_app_action", task.action, "app",
                                    task.target))
              ELSE [st EXCEPT !.raised = "ValueError"]
         ELSE IF task.type \in {"file", "folder"}
              THEN [st EXCEPT !.raised = "TypeError"]
              ELSE st
    ELSE Went(st, Handler("speak", "", "", ""))

RECURSIVE AgentTasks(_, _)
AgentTasks(st, tasks) ==
    IF tasks = <<>> \/ st.raised # "" THEN st
    ELSE AgentTasks(AgentTask(st, Head(tasks)), Tail(tasks))

agent_call(st, tasks) ==
    AgentTasks(Went(st, Handler("agent_call", "", "", "")), tasks)

\* transcript.py l.227-349: listening mode (fast paths, else the agent)
\* or agent chat mode
Dispatch(st, tbl, t, f, text, ok, tasks) ==
    IF ~st.listening THEN agent_call(st, tasks)
    ELSE IF Route(text) = "open folder"
         THEN FileFastPath(st, tbl, t, f, "folder", RouteTarget(text), ok)
    ELSE IF Route(text) = "open file"
         THEN FileFastPath(st, tbl, t, f, "file", RouteTarget(text), ok)
    ELSE IF Route(text) = "list folder"
         THEN ListFastPath(st, tbl, t, f, RouteTarget(text), ok)
    ELSE IF Route(text) = "app" THEN AppFastPath(st, text)
    ELSE agent_call(st, tasks)

\* the selection that clears the session only when the entry has opened
SelectEntryIfOpened(st, index, ok, how) ==
    [st EXCEPT
       !.opened = open_entry(@, st.session.pending_matches[index + 1], ok),
       !.session = IF ok THEN NoPending ELSE @,
       !.handled = Append(@, Handler(how, "", "", ""))]

\* open_entry(entry); session.clear()
SelectEntry(st, index, ok, how) ==
    [st EXCEPT
       !.opened = open_entry(@, st.session.pending_matches[index + 1], ok),
       !.session = NoPending,
       !.handled = Append(@, Handler(how, "", "", ""))]

\* a number outside the list reported invalid and the session cleared
SelectByNumberClears(st, number, ok) ==
    IF 0 <= number - 1 /\ number - 1 < Len(st.session.pending_matches)
    THEN SelectEntry(st, number - 1, ok, "select number")
    ELSE [Went(st, Handler("invalid number", "", "", ""))
            EXCEPT !.session = NoPending]

\* l.180-196: a number in the text selects, or is reported invalid
SelectByNumber(st, number, ok) ==
    IF 0 <= number - 1 /\ number - 1 < Len(st.session.pending_matches)
    THEN SelectEntry(st, number - 1, ok, "select number")
    ELSE Went(st, Handler("invalid number", "", "", ""))

\* l.199-217: an ordinal word in the text selects, or is reported missing
SelectByOrdinal(st, idx, ok) ==
    IF idx < Len(st.session.pending_matches)
    THEN SelectEntry(st, idx, ok, "select ordinal")
    ELSE Went(st, Handler("invalid ordinal", "", "", ""))

\* l.178-221: the text names a selection verb; after a number the loop
\* continues with the next utterance, after the ordinals it goes on
VerbBlock(st, tbl, t, f, text, number, idx, oks, tasks) ==
    IF number >= 0 THEN SelectByNumber(st, number, oks[1])
    ELSE IF idx >= 0
         THEN Dispatch(SelectByOrdinal(st, idx, oks[1]), tbl, t, f, text,
                       oks[2], tasks)
         ELSE Dispatch(st, tbl, t, f, text, oks[2], tasks)

\* l.142-221: the block guarded by session.has_pending()
PendingBlock(st, tbl, t, f, text, oks, tasks) ==
    IF IsCancel(text)
    THEN [Went(st, Handler("cancel", "", "", ""))
            EXCEPT !.session = NoPending]
    ELSE IF IsShowAgain(text)
         THEN Went(st, Handler("show_options", "", "", ""))
    ELSE IF HasSelectVerb(text)
         THEN VerbBlock(st, tbl, t, f, text,
                        FirstNumber(normalize_spoken_numbers(text)),
                        OrdinalIndex(text), oks, tasks)
    ELSE Dispatch(st, tbl, t, f, text, oks[2], tasks)

\* l.119-349: a finalized text that is not noise
Finalized(st, tbl, t, f, text, oks, tasks) ==
    IF extract_command(text)
    THEN [Went(st, Handler("wake word", "", "", ""))
            EXCEPT !.listening = TRUE]
    ELSE IF has_pending(st.session)
         THEN PendingBlock(st, tbl, t, f, text, oks, tasks)
         ELSE Dispatch(st, tbl, t, f, text, oks[2], tasks)

\* an auto-exit that drops the pending selection with the session
AutoExitClears(st, expired) ==
    [st EXCEPT !.listening = IF @ /\ expired THEN FALSE ELSE @,
               !.session = IF st.listening /\ expired THEN NoPending ELSE @]

\* l.123-125: the listening session ends after SESSION_TIMEOUT seconds
\* without activity (expired)
AutoExit(st, expired) ==
    [st EXCEPT !.listening = IF @ /\ expired THEN FALSE ELSE @]

\* l.117-349: one utterance, heard as final_text
Heard(st, tbl, t, f, text, expired, oks, tasks) ==
    IF text = "" THEN st
    ELSE Finalized(AutoExit(st, expired), tbl, t, f, text, oks, tasks)

-----------------------------------------------------------------------------
(* Table `meta` and ensure_single_root *)

\* INSERT OR REPLACE INTO meta (key, value)
save_meta(m, key, value) ==
    [k \in DOMAIN m \cup {key} |-> IF k = key THEN value ELSE m[k]]

\* one marker shared by all roots
MetaKeyShared(root_path) == "root::"

MetaKey(root_path) == "root::" \o root_path

MaxRoots == 2

\* the arguments of ensure_index: a string, or a list of strings
EnsureArgs ==
    [isStr : {TRUE}, roots : {<<r>> : r \in RootArgs}]
    \cup [isStr : {FALSE},
          roots : UNION {[1..n -> RootArgs] : n \in 1..MaxRoots}]

\* the values of st_mtime and st_size
MTimes == {1, 2}
Sizes == {10, 20}
OtherOf(v, S) == CHOOSE w \in S : w # v

\* the kinds a path of the universe may have: a path that holds others is a
\* directory, any other is a file or a directory
KindsOf ==
    [p \in UniverseSet |->
        IF ChildrenOf[p] # <<>> THEN {"dir"} ELSE {"file", "dir"}]

\* the filesystem at the start: every path of the universe but t.exe is
\* there; Program Files and .git are directories, m.TXT is a file
InitFs ==
    [p \in UniverseSet |->
        IF p = "/d/a/t.exe" \/ p \in SecondTree \cup RankTree THEN NoEnt
        ELSE [kind |-> IF p = "/d/ab/m.TXT" THEN "file" ELSE "dir",
              mtime |-> 1, size |-> 10, locked |-> FALSE]]

NoOp == [op |-> "init", arg |-> <<>>, ran |-> <<>>]

\* the filesystem in the runs of the utterance loop: the second tree is
\* there as well
LoopFs ==
    [p \in UniverseSet |->
        IF p \in SecondTree
        THEN [kind |-> IF p = "/d/2/m.txt" THEN "file" ELSE "dir",
              mtime |-> 1, size |-> 10, locked |-> FALSE]
        ELSE InitFs[p]]

\* no iteration of the main loop is under way
NoIter ==
    [u |-> "", expired |-> FALSE, oks |-> <<>>, tasks |-> <<>>, k |-> 0,
     session |-> NoPending, listening |-> FALSE]

\* session_state.py and transcript.py before the first utterance
InitSession ==
    /\ session = NoPending
    /\ LISTENING_MODE = FALSE
    /\ opened = <<>>
    /\ handled = <<>>
    /\ ret = NoRet
    /\ utterances = 0
    /\ audio_q = <<>>
    /\ buffer = 0
    /\ pc = "get"
    /\ cur = NoIter

InitTables ==
    /\ files = {}
    /\ seq = 0
    /\ meta = [k \in {} |-> ""]
    /\ now = 0
    /\ last = NoOp
    /\ raised = ""
    /\ result = <<>>
    /\ fullCount = [r \in Roots |-> 0]
    /\ fsOps = 0
    /\ calls = 0
    /\ InitSession

InitCommon ==
    /\ fs = InitFs
    /\ InitTables

\* the configuration as shipped
Init ==
    /\ InitCommon
    /\ INCLUDED_EXTENSIONS = [isNone |-> FALSE, exts |-> IncludedDefault]

\* the start of transcript.py
InitLoop ==
    /\ fs = LoopFs
    /\ InitTables
    /\ INCLUDED_EXTENSIONS = [isNone |-> FALSE, exts |-> IncludedDefault]

\* rows a run over another root has left in the database: four folders
\* of one name
StaleRows ==
    {NewRow(i, "a", "/e/" \o Char(Digits, i + 1) \o "/a", "folder", "",
            Char(Digits, i + 1), [mtime |-> 1, size |-> 10]) : i \in 1..4}

\* the meta records that run has left: the marker of each of its roots
\* and last_index_time, written at the last of its four passes
StaleMeta ==
    [k \in {MetaKey("/e/" \o Char(Digits, i + 1)) : i \in 1..4}
           \cup {"last_index_time"} |->
        IF k = "last_index_time" THEN ToString(3) ELSE "indexed"]

\* the start of transcript.py on the database that run has left
InitMany ==
    /\ fs = LoopFs
    /\ files = StaleRows
    /\ seq = 4
    /\ meta = StaleMeta
    /\ now = 4
    /\ last = NoOp
    /\ raised = ""
    /\ result = <<>>
    /\ fullCount = [r \in Roots |-> 0]
    /\ fsOps = 0
    /\ calls = 0
    /\ InitSession
    /\ INCLUDED_EXTENSIONS = [isNone |-> FALSE, exts |-> IncludedDefault]

\* the clock of the ranking runs starts at Epoch (time.time(), in seconds)
EpochDays == 100
Epoch == EpochDays * SecondsPerDay

\* the ages of the documents when the ranking runs start: written within
\* the hour, or sixty days ago
RankAges == {3600, 60 * SecondsPerDay}

\* the documents tree, each file with one of the ages
RankFs(mtimes) ==
    [p \in UniverseSet |->
        IF p = "/d" \/ p = "/d/r"
        THEN [kind |-> "dir", mtime |-> Epoch - 60 * SecondsPerDay,
              size |-> 10, locked |-> FALSE]
        ELSE IF p \in RankTree
        THEN [kind |-> "file", mtime |-> mtimes[p], size |-> 10,
              locked |-> FALSE]
        ELSE NoEnt]

\* the start of a ranking run: the documents tree, the clock at Epoch
InitRank ==
    /\ \E mtimes \in [RankTree \ {"/d/r"} -> {Epoch - a : a \in RankAges}] :
          fs = RankFs(mtimes)
    /\ files = {}
    /\ seq = 0
    /\ meta = [k \in {} |-> ""]
    /\ now = Epoch
    /\ last = NoOp
    /\ raised = ""
    /\ result = <<>>
    /\ fullCount = [r \in Roots |-> 0]
    /\ fsOps = 0
    /\ calls = 0
    /\ InitSession
    /\ INCLUDED_EXTENSIONS = [isNone |-> FALSE, exts |-> IncludedDefault]

\* the configurations of the whitelist: as shipped, None, and empty
InitFilter ==
    /\ InitCommon
    /\ INCLUDED_EXTENSIONS \in
          { [isNone |-> FALSE, exts |-> IncludedDefault],
            [isNone |-> TRUE, exts |-> {}],
            [isNone |-> FALSE, exts |-> {}] }

-----------------------------------------------------------------------------
(* The environment: filesystem changes and the clock *)

\* the filesystem is taken to change between the calls of the program
FsStep ==
    /\ fsOps < MaxFsOps
    /\ fsOps' = fsOps + 1
    /\ last' = [op |-> "fs", arg |-> <<>>, ran |-> <<>>]
    /\ UNCHANGED <<files, seq, meta, now, raised, result, fullCount,
                   INCLUDED_EXTENSIONS, calls>>
    /\ UNCHANGED loopVars

\* the time of a change of the filesystem: later than every time before
OpTime == fsOps + 2

\* a change of the entries of a directory sets the modification time of
\* the directory that holds p to the time of the change
Touched(f, p, t) ==
    IF ParentOf[p] \in DOMAIN f /\ Exists(f, ParentOf[p])
    THEN [f EXCEPT ![ParentOf[p]].mtime = t]
    ELSE f

\* a file or a directory appears (written just now)
FsCreate(p, kind) ==
    /\ ~Exists(fs, p)
    /\ IsDir(fs, ParentOf[p])
    /\ kind \in KindsOf[p]
    /\ fs' = Touched([fs EXCEPT ![p] = [kind |-> kind, mtime |-> OpTime,
                                        size |-> 20, locked |-> FALSE]],
                     p, OpTime)
    /\ FsStep

\* an entry is removed and a new one of the other kind takes its name
FsReplace(p) ==
    /\ Exists(fs, p)
    /\ KindsOf[p] = {"file", "dir"}
    /\ fs' = Touched([fs EXCEPT ![p] =
                         [kind |-> OtherOf(fs[p].kind, KindsOf[p]),
                          mtime |-> OpTime, size |-> 20,
                          locked |-> FALSE]],
                     p, OpTime)
    /\ FsStep

\* an entry becomes one os.stat fails on (access is denied, or another
\* process holds it): scandir of its directory still lists it; when it
\* is a directory, what it holds is out of reach
FsLock(p) ==
    /\ Exists(fs, p)
    /\ ~fs[p].locked
    /\ fs' = [fs EXCEPT ![p].locked = TRUE]
    /\ FsStep

\* a name comes to be an entry that is neither a regular file nor a
\* directory (a FIFO, a socket, a device): os.walk lists it among the
\* files, os.stat succeeds on it, os.path.isfile is False for it
FsSpecial(p) ==
    /\ KindsOf[p] = {"file", "dir"}
    /\ ~IsDir(fs, p)
    /\ IsDir(fs, ParentOf[p])
    /\ fs' = Touched([fs EXCEPT ![p] = [kind |-> "other", mtime |-> OpTime,
                                        size |-> 0, locked |-> FALSE]],
                     p, OpTime)
    /\ FsStep

\* a file or a whole directory disappears
FsRemove(p) ==
    /\ Exists(fs, p)
    /\ fs' = Touched([q \in DOMAIN fs |->
                         IF q = p \/ q \in BelowSet[p] THEN NoEnt
                         ELSE fs[q]],
                     p, OpTime)
    /\ FsStep

\* an entry is rewritten: its size changes, and its modification time
\* too when touch holds (it is left as it was otherwise)
FsModify(p, touch) ==
    /\ Exists(fs, p)
    /\ fs' = [fs EXCEPT
                ![p].mtime = IF touch THEN OtherOf(@, MTimes) ELSE @,
                ![p].size = OtherOf(@, Sizes)]
    /\ FsStep

-----------------------------------------------------------------------------
(* The indexer's operations *)

\* the pass ensure_single_root makes over root_path: full_rebuild when the
\* marker is absent (first), incremental_update otherwise
FirstBuild(built) ==
    [files |-> built.files, seq |-> built.seq, raised |-> ""]

RootPass(db, f, root_path, first) ==
    IF first THEN FirstBuild(full_rebuild(db, f, root_path))
    ELSE incremental_update(db, f, root_path)

\* the marker is saved after the first build, last_index_time after the
\* pass: an exception of the pass skips both
MetaAfter(m, key, first, failed, t) ==
    IF failed THEN m
    ELSE save_meta(IF first THEN save_meta(m, key, "indexed") ELSE m,
                   "last_index_time", ToString(t))

RootDone(st, out, root_path, key, first) ==
    [files |-> out.files,
     seq |-> out.seq,
     raised |-> out.raised,
     meta |-> MetaAfter(st.meta, key, first, out.raised # "", st.now),
     now |-> st.now + 1,
     fullCount |-> IF first
                   THEN [st.fullCount EXCEPT ![root_path] = @ + 1]
                   ELSE st.fullCount,
     ran |-> Append(st.ran, IF first THEN "full_rebuild"
                            ELSE "incremental_update")]

RootBranch(st, f, root_path, key, first) ==
    RootDone(st, RootPass([files |-> st.files, seq |-> st.seq], f,
                          root_path, first),
             root_path, key, first)

RootKeyed(st, f, root_path, key) ==
    RootBranch(st, f, root_path, key, key \notin DOMAIN st.meta)

\* ensure_single_root(root_path) on the state st of the running call:
\* the tables, the clock, the exception raised, and the passes run so far
ensure_single_root(st, f, root_path) ==
    RootKeyed(st, f, root_path, MetaKey(root_path))

\* for root in roots: ensure_single_root(root); an exception ends the call
RECURSIVE EnsureLoop(_, _, _)
EnsureLoop(st, f, roots) ==
    IF roots = <<>> \/ st.raised # "" THEN st
    ELSE EnsureLoop(ensure_single_root(st, f, Head(roots)), f, Tail(roots))

\* ensure_index(roots)
\* roots = [os.path.abspath(r) for r in roots]
AbsRoots(arg) == [i \in 1..Len(arg.roots) |-> AbsPath(arg.roots[i])]

\* ensure_index(roots)
ensure_index(st, f, arg) == EnsureLoop(st, f, AbsRoots(arg))

\* the state a call of ensure_index leaves
EnsureIndexDone(out, roots) ==
    /\ files' = out.files
    /\ seq' = out.seq
    /\ meta' = out.meta
    /\ now' = out.now
    /\ raised' = out.raised
    /\ fullCount' = out.fullCount
    /\ last' = [op |-> "ensure_index", arg |-> roots, ran |-> out.ran]

\* a call of ensure_index(arg)
EnsureIndexCall(arg) ==
    /\ calls < MaxCalls
    /\ calls' = calls + 1
    /\ EnsureIndexDone(ensure_index([files |-> files, seq |-> seq,
                                     meta |-> meta, now |-> now,
                                     raised |-> "", fullCount |-> fullCount,
                                     ran |-> <<>>],
                                    fs, arg),
                       AbsRoots(arg))
    /\ UNCHANGED <<fs, result, INCLUDED_EXTENSIONS, fsOps>>
    /\ UNCHANGED loopVars

\* the state a call of ensure_index leaves when the process is ended
\* abruptly inside full_rebuild(root_path): the roots before it were passed
\* (st); the inserts of the rebuild were never committed and SQLite rolls
\* them back; the marker of the root is not saved
KilledInRebuild(st, roots, root_path) ==
    /\ st.raised = ""
    /\ MetaKey(root_path) \notin DOMAIN st.meta
    /\ files' = st.files
    /\ seq' = st.seq
    /\ meta' = st.meta
    /\ now' = st.now
    /\ raised' = "killed"
    /\ fullCount' = st.fullCount
    /\ last' = [op |-> "ensure_index_killed", arg |-> roots,
                ran |-> Append(st.ran, "full_rebuild")]

\* a call of ensure_index(arg) ended abruptly while roots[i] is rebuilt
EnsureIndexKilled(arg, i) ==
    /\ calls < MaxCalls
    /\ calls' = calls + 1
    /\ i \in 1..Len(arg.roots)
    /\ KilledInRebuild(EnsureLoop([files |-> files, seq |-> seq,
                                   meta |-> meta, now |-> now,
                                   raised |-> "", fullCount |-> fullCount,
                                   ran |-> <<>>],
                                  fs, SubSeq(AbsRoots(arg), 1, i - 1)),
                       AbsRoots(arg), AbsRoots(arg)[i])
    /\ UNCHANGED <<fs, result, INCLUDED_EXTENSIONS, fsOps>>
    /\ UNCHANGED loopVars

\* the state a call of ensure_index leaves when a save_meta call of
\* ensure_single_root(root_path) raises (sqlite3.OperationalError: the
\* database is locked, or cannot be written): the pass over the root (out)
\* is committed; write names the record that was not written, the marker
\* (l.129) or last_index_time (l.134)
MetaWriteFailed(st, out, roots, root_path, first, write) ==
    /\ st.raised = ""
    /\ out.raised = ""
    /\ write = "marker" => first
    /\ files' = out.files
    /\ seq' = out.seq
    /\ meta' = IF first /\ write = "last_index_time"
               THEN save_meta(st.meta, MetaKey(root_path), "indexed")
               ELSE st.meta
    /\ now' = st.now + 1
    /\ raised' = "OperationalError"
    /\ fullCount' = IF first
                    THEN [st.fullCount EXCEPT ![root_path] = @ + 1]
                    ELSE st.fullCount
    /\ last' = [op |-> "ensure_index", arg |-> roots,
                ran |-> Append(st.ran, IF first THEN "full_rebuild"
                                       ELSE "incremental_update"),
                unsaved |-> write]

MetaWriteFailedAt(st, roots, root_path, first, write) ==
    MetaWriteFailed(st, RootPass([files |-> st.files, seq |-> st.seq], fs,
                                 root_path, first),
                    roots, root_path, first, write)

\* a call of ensure_index(arg) in which a save_meta call for roots[i] fails
EnsureIndexMetaFails(arg, i, write) ==
    /\ calls < MaxCalls
    /\ calls' = calls + 1
    /\ i \in 1..Len(arg.roots)
    /\ LET st == EnsureLoop([files |-> files, seq |-> seq,
                             meta |-> meta, now |-> now,
                             raised |-> "", fullCount |-> fullCount,
                             ran |-> <<>>],
                            fs, SubSeq(AbsRoots(arg), 1, i - 1))
       IN  MetaWriteFailedAt(st, AbsRoots(arg), AbsRoots(arg)[i],
                             MetaKey(AbsRoots(arg)[i]) \notin DOMAIN st.meta,
                             write)
    /\ UNCHANGED <<fs, result, INCLUDED_EXTENSIONS, fsOps>>
    /\ UNCHANGED loopVars

\* a direct call of full_rebuild(root_path)
FullRebuildCall(root_path) ==
    /\ calls < MaxCalls
    /\ calls' = calls + 1
    /\ LET out == full_rebuild([files |-> files, seq |-> seq], fs, root_path)
       IN  /\ files' = out.files
           /\ seq' = out.seq
    /\ raised' = ""
    /\ last' = [op |-> "full_rebuild", arg |-> <<root_path>>,
                ran |-> <<"full_rebuild">>]
    /\ UNCHANGED <<fs, meta, now, result, fullCount,
                   INCLUDED_EXTENSIONS, fsOps>>
    /\ UNCHANGED loopVars

\* a direct call of incremental_update(root_path)
IncrementalUpdateCall(root_path) ==
    /\ calls < MaxCalls
    /\ calls' = calls + 1
    /\ LET out == incremental_update([files |-> files, seq |-> seq], fs,
                                     root_path)
       IN  /\ files' = out.files
           /\ seq' = out.seq
           /\ raised' = out.raised
    /\ last' = [op |-> "incremental_update", arg |-> <<root_path>>,
                ran |-> <<"incremental_update">>]
    /\ UNCHANGED <<fs, meta, now, result, fullCount,
                   INCLUDED_EXTENSIONS, fsOps>>
    /\ UNCHANGED loopVars

\* a call of search_files(query, limit) made at time t
SearchRun(query, limit, t) ==
    /\ calls' = calls + 1
    /\ now' = t
    /\ LET out == search_files(files, t, query, limit)
       IN  /\ raised' = out.raised
           /\ result' = out.result
    /\ last' = [op |-> "search_files", arg |-> <<query, limit>>,
                ran |-> <<>>]
    /\ UNCHANGED <<fs, files, seq, meta, fullCount,
                   INCLUDED_EXTENSIONS, fsOps>>
    /\ UNCHANGED loopVars

SearchCall(query, limit) ==
    /\ calls < MaxCalls
    /\ SearchRun(query, limit, now)

\* the days after Epoch at which the searches of a ranking run are made
CallDays == {0, 1, 7, 30}

MaxSearches == 2

\* the documents tree is indexed once, at Epoch
RankBuild ==
    /\ last.op = "init"
    /\ FullRebuildCall("/d")

\* a search made on day d; the clock does not run backwards
RankSearchCall(query, limit, d) ==
    /\ last.op # "init"
    /\ calls <= MaxSearches
    /\ now <= Epoch + d * SecondsPerDay
    /\ SearchRun(query, limit, Epoch + d * SecondsPerDay)

\* a call of open_entry(entry) for a row of the catalog
OpenEntryCall(row, shell) ==
    /\ calls < MaxCalls
    /\ calls' = calls + 1
    /\ row \in files
    /\ opened' = open_entry(<<>>, FileEntry(row),
                            OpenReturns(OsOpen(FileEntry(row), fs, shell)))
    /\ raised' = ""
    /\ last' = [op |-> "open_entry", arg |-> <<row.path>>,
                ran |-> <<OsOpen(FileEntry(row), fs, shell)>>]
    /\ UNCHANGED <<fs, files, seq, meta, now, result, fullCount,
                   INCLUDED_EXTENSIONS, fsOps>>
    /\ UNCHANGED <<session, LISTENING_MODE, handled, ret, utterances>>
    /\ UNCHANGED audioVars

\* the state a call of handle_file_action leaves
HandleFileActionDone(out) ==
    /\ raised' = out.raised
    /\ ret' = out.ret
    /\ opened' = out.opened

\* the arguments of the direct calls of handle_file_action
Actions == {"open", " Open ", "list", "list_folder"}
Kinds == {"file", "folder"}
ActionTargets == {"a", "m ", "d", ""}

\* a call of handle_file_action(action, type, target)
HandleFileActionCall(action, type, target, ok) ==
    /\ calls < MaxCalls
    /\ calls' = calls + 1
    /\ HandleFileActionDone(
          handle_file_action(files, now, fs, action, type, target, <<>>, ok))
    /\ last' = [op |-> "handle_file_action",
                arg |-> <<action, type, target>>, ran |-> <<>>]
    /\ UNCHANGED <<fs, files, seq, meta, now, result, fullCount,
                   INCLUDED_EXTENSIONS, fsOps>>
    /\ UNCHANGED <<session, LISTENING_MODE, handled, utterances>>
    /\ UNCHANGED audioVars

\* the texts the recogniser hands to the loop
Utterances ==
    { "Alice, cancel", "Alice", "cancel", "never mind.", "show options",
      "repeat", "open number two", "Open number 2.", "select three",
      "number two", "open number nine", "open number 9", "open number zero",
      "second", "open the second", "open the fifth",
      "open folder a", "open folder 2", "open file m", "open folder ab",
      "open folder d", "open folder", "list the folder a",
      "open notepad", "hello there", "the" }

\* hp.remove_leading_the(final_text), evaluated once per text
FinalText == [u \in Utterances |-> remove_leading_the(u)]

\* the replies of the agent (SimpleAgent.chat): lists of tasks
ChatTask == [intent |-> "chat", type |-> "", action |-> "", target |-> ""]
AppTask ==
    [intent |-> "system", type |-> "app", action |-> "open",
     target |-> "notepad"]
FolderTask ==
    [intent |-> "system", type |-> "folder", action |-> "open",
     target |-> "a"]
AgentReplies == { <<ChatTask>>, <<AppTask, ChatTask>>, <<FolderTask>> }

MaxUtterances == 3

\* the roots transcript.py indexes when it starts
StartupArgs ==
    [isStr : {FALSE}, roots : {<<"/d">>, <<"/d/ab">>, <<"/d", "/d/ab">>}]

\* transcript.py l.30-34: ensure_index(roots) before the loop starts
StartupCall ==
    /\ last.op = "init"
    /\ \E arg \in StartupArgs : EnsureIndexCall(arg)

\* the state an utterance leaves
UtteranceDone(out) ==
    /\ session' = out.session
    /\ LISTENING_MODE' = out.listening
    /\ opened' = out.opened
    /\ handled' = out.handled
    /\ raised' = out.raised

\* l.117-349: the main loop handles one finalized utterance; an exception
\* ends the loop
UtteranceTaken(u, expired, oks, tasks) ==
    /\ last.op # "init"
    /\ raised = ""
    /\ utterances < MaxUtterances
    /\ utterances' = utterances + 1
    /\ expired => LISTENING_MODE
    /\ UtteranceDone(Heard([session |-> session,
                            listening |-> LISTENING_MODE,
                            opened |-> <<>>, handled |-> <<>>,
                            raised |-> ""],
                           files, now, fs, FinalText[u], expired, oks, tasks))
    /\ last' = [op |-> "utterance", arg |-> <<u>>, ran |-> <<>>]
    /\ UNCHANGED <<fs, files, seq, meta, now, result, fullCount,
                   INCLUDED_EXTENSIONS, fsOps, calls, ret>>

\* the loop takes one finalized utterance (audio capture left aside)
Utterance(u, expired, oks, tasks) ==
    /\ UtteranceTaken(u, expired, oks, tasks)
    /\ UNCHANGED audioVars

\* --- audio capture: the callback thread and the main loop ---

\* the frames the queue holds at most (Queue(maxsize=...))
QueueCap == 2

\* the bytes of a frame: SAMPLE_RATE * BLOCK_MS / 1000 samples of int16
FrameBytes == 320

\* int(SAMPLE_RATE * FINAL_CHUNK_SECONDS * 2): the buffer is transcribed
\* once it holds more bytes than this
FinalChunkBytes == 32000

\* the bytes of speech the buffer is let grow to
MaxBuffer == 32320

\* a frame of speech, a frame without speech, or a frame without speech
\* at which the silence timeout has passed
Frames == {"speech", "pause", "silence"}

\* a callback that clears the pending selection as well
callbackClearing(frame) ==
    /\ last.op # "init"
    /\ raised = ""
    /\ audio_q' = IF Len(audio_q) < QueueCap THEN Append(audio_q, frame)
                  ELSE audio_q
    /\ session' = NoPending
    /\ UNCHANGED <<fs, files, seq, meta, now, last, raised, result,
                   fullCount, INCLUDED_EXTENSIONS, fsOps, calls>>
    /\ UNCHANGED <<LISTENING_MODE, opened, handled, ret, utterances,
                   buffer, pc, cur>>

\* transcript.py l.67-71: the callback of the input stream, run by the
\* audio thread once the stream is open, at any point of the main loop:
\* audio_q.put_nowait(frame), a frame that meets a full queue is dropped
callback(frame) ==
    /\ last.op # "init"
    /\ raised = ""
    /\ audio_q' = IF Len(audio_q) < QueueCap THEN Append(audio_q, frame)
                  ELSE audio_q
    /\ UNCHANGED <<fs, files, seq, meta, now, last, raised, result,
                   fullCount, INCLUDED_EXTENSIONS, fsOps, calls>>
    /\ UNCHANGED <<session, LISTENING_MODE, opened, handled, ret,
                   utterances, buffer, pc, cur>>

\* l.90-105: the main loop takes a frame; a frame of speech goes to the
\* buffer; when the silence has lasted and the buffer holds more than
\* FinalChunkBytes, the buffer is cleared and handed to the recogniser
LoopGet ==
    /\ pc = "get"
    /\ raised = ""
    /\ audio_q # <<>>
    /\ Head(audio_q) = "speech" => buffer + FrameBytes <= MaxBuffer
    /\ audio_q' = Tail(audio_q)
    /\ buffer' = CASE Head(audio_q) = "speech" -> buffer + FrameBytes
                   [] Head(audio_q) = "silence" /\ buffer > FinalChunkBytes
                        -> 0
                   [] OTHER -> buffer
    /\ pc' = IF Head(audio_q) = "silence" /\ buffer > FinalChunkBytes
             THEN "transcribe" ELSE "get"
    /\ UNCHANGED <<fs, files, seq, meta, now, last, raised, result,
                   fullCount, INCLUDED_EXTENSIONS, fsOps, calls>>
    /\ UNCHANGED <<session, LISTENING_MODE, opened, handled, ret,
                   utterances, cur>>

\* the state the iteration c has reached when the agent has replied and
\* k of its tasks are done (before the reply, and on the paths that do
\* not ask the agent: k = 0)
HeardSoFar(c, k) ==
    Heard([session |-> c.session, listening |-> c.listening,
           opened |-> <<>>, handled |-> <<>>, raised |-> ""],
          files, now, fs, FinalText[c.u], c.expired, c.oks,
          SubSeq(c.tasks, 1, k))

\* the iteration waits for the agent or for a task of its reply
TasksLeft ==
    /\ \E i \in 1..Len(handled) : handled[i].fn = "agent_call"
    /\ cur.k < Len(cur.tasks)

\* l.107-349: whisper_model.transcribe returns the text, and the loop
\* handles it up to the call of the agent (agent.chat, helpers.py l.160),
\* or to the end on the paths that do not ask the agent
LoopTranscribe(u, expired, oks, tasks) ==
    /\ pc = "transcribe"
    /\ last.op # "init"
    /\ raised = ""
    /\ utterances < MaxUtterances
    /\ utterances' = utterances + 1
    /\ expired => LISTENING_MODE
    /\ LET c == [u |-> u, expired |-> expired, oks |-> oks,
                 tasks |-> tasks, k |-> 0, session |-> session,
                 listening |-> LISTENING_MODE]
       IN  /\ cur' = c
           /\ UtteranceDone(HeardSoFar(c, 0))
    /\ pc' = "handle"
    /\ last' = [op |-> "utterance", arg |-> <<u>>, ran |-> <<>>]
    /\ UNCHANGED <<fs, files, seq, meta, now, result, fullCount,
                   INCLUDED_EXTENSIONS, fsOps, calls, ret>>
    /\ UNCHANGED <<audio_q, buffer>>

\* helpers.py l.162-212: the next task of the agent's reply is done (the
\* loop waits in agent.chat before the first and in speak after each)
LoopResume ==
    /\ pc = "handle"
    /\ raised = ""
    /\ TasksLeft
    /\ cur' = [cur EXCEPT !.k = @ + 1]
    /\ UtteranceDone(HeardSoFar(cur, cur.k + 1))
    /\ UNCHANGED <<fs, files, seq, meta, now, last, result, fullCount,
                   INCLUDED_EXTENSIONS, fsOps, calls, ret>>
    /\ UNCHANGED <<utterances, audio_q, buffer, pc>>

\* the iteration is over: the loop is back at audio_q.get() (l.90)
LoopDone ==
    /\ pc = "handle"
    /\ raised = ""
    /\ ~TasksLeft
    /\ pc' = "get"
    /\ cur' = NoIter
    /\ UNCHANGED <<fs, files, seq, meta, now, last, raised, result,
                   fullCount, INCLUDED_EXTENSIONS, fsOps, calls>>
    /\ UNCHANGED <<session, LISTENING_MODE, opened, handled, ret,
                   utterances, audio_q, buffer>>

\* what the transcription of the audio runs gives
AudioUtterances ==
    {"Alice", "open folder a", "cancel", "open number two", "hello there",
     "the"}

-----------------------------------------------------------------------------
(* Specifications *)

\* the top directory of the universe stays as it is
Changeable == UniverseSet \ ({"/d"} \cup SecondTree \cup RankTree)

Environment ==
    \/ \E p \in Changeable, kind \in {"file", "dir"} : FsCreate(p, kind)
    \/ \E p \in Changeable : FsReplace(p)
    \/ \E p \in Changeable : FsRemove(p)
    \/ \E p \in Changeable, touch \in BOOLEAN : FsModify(p, touch)

NextEnsure ==
    \/ \E arg \in EnsureArgs : EnsureIndexCall(arg)
    \/ Environment

Next ==
    \/ NextEnsure
    \/ \E r \in Roots : FullRebuildCall(r)
    \/ \E r \in Roots : IncrementalUpdateCall(r)

Spec == Init /\ [][Next]_vars

SpecEnsure == Init /\ [][NextEnsure]_vars

SpecFilter == InitFilter /\ [][Next]_vars

NextSearch ==
    \/ Next
    \/ \E q \in Queries, limit \in Limits : SearchCall(q, limit)

SpecSearch == Init /\ [][NextSearch]_vars

NextAction ==
    \/ Next
    \/ \E action \in Actions, type \in Kinds, target \in ActionTargets,
          ok \in BOOLEAN :
          HandleFileActionCall(action, type, target, ok)

SpecAction == Init /\ [][NextAction]_vars

NextLoop ==
    \/ StartupCall
    \/ \E u \in Utterances, expired \in BOOLEAN, oks \in [1..2 -> BOOLEAN],
          tasks \in AgentReplies :
          Utterance(u, expired, oks, tasks)

SpecLoop == InitLoop /\ [][NextLoop]_vars

NextAudio ==
    \/ StartupCall
    \/ \E frame \in Frames : callback(frame)
    \/ LoopGet
    \/ \E u \in AudioUtterances, expired \in BOOLEAN,
          oks \in [1..2 -> BOOLEAN], tasks \in AgentReplies :
          LoopTranscribe(u, expired, oks, tasks)
    \/ LoopResume
    \/ LoopDone

SpecAudio == InitLoop /\ [][NextAudio]_vars

SpecMany == InitMany /\ [][NextLoop]_vars

\* the paths os.stat may fail on
Lockable == {"/d/a", "/d/ab", "/d/a/Program Files", "/d/ab/m.TXT"}

NextStat ==
    \/ Next
    \/ \E p \in Lockable : FsLock(p)

SpecStat == Init /\ [][NextStat]_vars

NextSpecial ==
    \/ Next
    \/ \E p \in Changeable : FsSpecial(p)

SpecSpecial == Init /\ [][NextSpecial]_vars

NextOpen ==
    \/ Next
    \/ \E row \in files, shell \in Shells : OpenEntryCall(row, shell)

SpecOpen == Init /\ [][NextOpen]_vars

NextMeta ==
    \/ NextEnsure
    \/ \E arg \in EnsureArgs, i \in 1..MaxRoots,
          write \in {"marker", "last_index_time"} :
          EnsureIndexMetaFails(arg, i, write)

SpecMeta == Init /\ [][NextMeta]_vars

NextCrash ==
    \/ NextEnsure
    \/ \E arg \in EnsureArgs, i \in 1..MaxRoots : EnsureIndexKilled(arg, i)

SpecCrash == Init /\ [][NextCrash]_vars

NextRank ==
    \/ RankBuild
    \/ \E q \in RankQueries, limit \in Limits, d \in CallDays :
          RankSearchCall(q, limit, d)

SpecRank == InitRank /\ [][NextRank]_vars

TypeOK ==
    /\ DOMAIN fs = UniverseSet
    /\ seq \in Nat
    /\ \A r \in files : r.id \in 1..seq
    /\ audio_q \in Seq(Frames) /\ Len(audio_q) <= QueueCap
    /\ buffer \in 0..MaxBuffer
    /\ pc \in {"get", "transcribe", "handle"}
    /\ cur.k \in 0..Len(cur.tasks)
    /\ pc = "get" => cur = NoIter

-----------------------------------------------------------------------------
(* Vocabulary of the properties *)

\* the components of a path
RECURSIVE Segments(_)
Segments(p) ==
    IF p = "" THEN {}
    ELSE LET k == IF \E i \in 1..Len(p) : Char(p, i) = Sep
                  THEN CHOOSE i \in 1..Len(p) :
                         /\ Char(p, i) = Sep
                         /\ \A j \in 1..(i - 1) : Char(p, j) # Sep
                  ELSE Len(p) + 1
         IN  (IF k > 1 THEN {SubSeq(p, 1, k - 1)} ELSE {})
             \cup Segments(SubSeq(p, k + 1, Len(p)))

SegmentsOf == [p \in UniverseSet |-> Segments(p)]

\* the directory names the exclusion list of file_control.py spells out
ExclusionSet ==
    { "node_modules", ".venv", "venv", ".cache", ".vscode", ".next", ".git",
      "__pycache__", "$RECYCLE.BIN", "System Volume Information", "AppData",
      "Support Files", "Program Files", "Program Files (x86)", "Windows" }

\* the directories between root and p (p itself left out)
Between(root, p) == {q \in UniverseSet : Below(q, root) /\ Below(p, q)}

\* the walk of root reaches p: p is there, below root, and no directory
\* on the way (p included, when a directory) bears a name of excl
Reached(f, root, p, excl) ==
    /\ Below(p, root)
    /\ Exists(f, p)
    /\ IsDir(f, root)
    /\ \A q \in Between(root, p) : IsDir(f, q) /\ Basename(q) \notin excl
    /\ IsDir(f, p) => Basename(p) \notin excl

\* the extension policy as the specification states it
PolicyAccepts(name) ==
    /\ LowerExt(name) \notin EXCLUDED_EXTENSIONS
    /\ \/ INCLUDED_EXTENSIONS.isNone
       \/ INCLUDED_EXTENSIONS.exts = {}
       \/ LowerExt(name) \in INCLUDED_EXTENSIONS.exts

UniquePaths(tbl) == \A r1, r2 \in tbl : r1.path = r2.path => r1 = r2

\* the last operation was one indexing pass, over the root PassRoot
RanIncremental == last.ran = <<"incremental_update">>
RanFull == last.ran = <<"full_rebuild">>
PassRoot == last.arg[1]

\* the root of the pass that ended the last operation
LastRoot == last.arg[Len(last.ran)]

-----------------------------------------------------------------------------
(* Properties *)

\* C1: a second ensure_index run over the same roots, with no filesystem
\* change since the first run began, leaves the catalog as the first run
\* left it.
C1_EnsureIndexIdempotent ==
    [][(/\ last.op = "ensure_index" /\ raised = ""
        /\ last'.op = "ensure_index" /\ raised' = ""
        /\ calls' = calls + 1
        /\ last'.arg = last.arg)
       => files' = files]_vars

\* C2: incremental_update(root) neither deletes nor modifies a row whose
\* path does not lie below the directory root.
C2_IncrementalFrame ==
    [][RanIncremental' =>
         \A r \in files : ~Below(r.path, PassRoot') => r \in files']_vars

\* C3: an incremental pass over a root that has its root:: marker leaves
\* the rows of the root as the filesystem delta dictates: a row for every
\* reached path that passes the rules, none for a path that is gone, the
\* current timestamp and size where the timestamp differed, and every
\* other row as it was.
C3_IncrementalDelta ==
    [][(RanIncremental' /\ raised' = ""
        /\ ("root::" \o PassRoot') \in DOMAIN meta) =>
         \A p \in UniverseSet :
            Below(p, PassRoot') =>
              /\ (/\ Reached(fs, PassRoot', p, EXCLUDED_DIRS)
                  /\ IsFile(fs, p) => should_index_file(Basename(p)))
                 => HasPath(files', p)
              /\ ~Exists(fs, p) => ~HasPath(files', p)
              /\ (HasPath(files, p) /\ Exists(fs, p)) =>
                   /\ HasPath(files', p)
                   /\ IF RowOf(files, p).last_modified # fs[p].mtime
                      THEN /\ RowOf(files', p).last_modified = fs[p].mtime
                           /\ RowOf(files', p).size = fs[p].size
                      ELSE RowOf(files', p) = RowOf(files, p)]_vars

\* C4: no row's path has a directory name of the exclusion list among
\* its components.
C4_NoExcludedSegment ==
    \A r \in files : Segments(r.path) \cap ExclusionSet = {}

\* C5: after a root was indexed, by either operation, a file the walk
\* reaches has a row iff its extension is not blacklisted and the whitelist
\* is unset, empty or holds the extension.
C5_FilterPolicy ==
    (last.ran # <<>> /\ raised = "") =>
       \A p \in UniverseSet :
          (Reached(fs, LastRoot, p, EXCLUDED_DIRS) /\ IsFile(fs, p))
          => (HasPath(files, p) <=> PolicyAccepts(Basename(p)))

\* C6: a path identifies at most one row, and no indexing operation fails
\* on a path that is already stored.
C6_PathUnique ==
    /\ UniquePaths(files)
    /\ raised # "IntegrityError"

\* C7: a row whose path stays on the filesystem and keeps passing the
\* exclusion and extension rules keeps its id.
C7_IdStable ==
    [][\A r \in files :
          (/\ Exists(fs, r.path) /\ Exists(fs', r.path)
           /\ SegmentsOf[r.path] \cap EXCLUDED_DIRS = {}
           /\ IsFile(fs', r.path) => should_index_file(r.name))
          => \E r2 \in files' : r2.path = r.path /\ r2.id = r.id]_vars

\* C8: ensure_single_root runs full_rebuild iff root::<root> is absent and
\* incremental_update otherwise, sets the marker, writes last_index_time;
\* no meta key is ever removed and no root is fully rebuilt twice.
\* Within one ensure_index call the marker of a root is absent at its
\* pass iff it was absent before the call and no earlier pass of the call
\* was over the same root.
C8_RebuildOnce ==
    /\ [](\A r \in Roots : fullCount[r] <= 1)
    /\ [][/\ \A k \in DOMAIN meta : k \in DOMAIN meta'
          /\ (last'.op = "ensure_index" /\ calls' = calls + 1) =>
               /\ Len(last'.ran) = Len(last'.arg)
               /\ now' = now + Len(last'.arg)
               /\ "last_index_time" \in DOMAIN meta'
               /\ meta'["last_index_time"] = ToString(now' - 1)
               /\ \A i \in 1..Len(last'.arg) :
                     LET key == "root::" \o last'.arg[i]
                         absent == /\ key \notin DOMAIN meta
                                   /\ \A j \in 1..(i - 1) :
                                         last'.arg[j] # last'.arg[i]
                     IN  /\ last'.ran[i] = "full_rebuild" <=> absent
                         /\ last'.ran[i] = "incremental_update" <=> ~absent
                         /\ key \in DOMAIN meta']_vars

\* C9: full_rebuild leaves every stored row as it is and adds rows only
\* for paths that had none.
C9_RebuildRerunnable ==
    [][RanFull' =>
         /\ \A r \in files : r \in files'
         /\ \A r \in files' \ files : ~HasPath(files, r.path)
         /\ UniquePaths(files')]_vars

\* C10: search_files raises nothing, and returns the empty list for a
\* query that is empty, that normalizes to no token, or that no row
\* matches.
C10_SearchNeverRaises ==
    last.op = "search_files" =>
       /\ raised = ""
       /\ LET tokens == Split(NormalizeQ(last.arg[1]))
          IN  (\/ tokens = <<>>
               \/ \A r \in files : ~PrefilterMatch(r, tokens))
              => result = <<>>

\* the last operation was handle_file_action(action, type, target)
RanAction == last.op = "handle_file_action"
ActionArg == Lower(Strip(last.arg[1]))
KindArg == last.arg[2]

\* the entries of the requested kind among those search(target) returns
OfKindFound ==
    OfType(search_files(files, now, Strip(last.arg[3]), DefaultLimit).result,
           KindArg)

\* C11: handle_file_action(open, kind, target), the search having
\* succeeded, returns False when no entry of the kind matched (also when
\* only entries of the other kind matched) and opens nothing; opens the
\* entry and returns None when exactly one matched; opens nothing and
\* returns the list of the entries of the kind when more than one matched.
C11_HandleOpen ==
    (RanAction /\ ActionArg = "open" /\ raised = "") =>
       /\ OfKindFound = <<>> => (ret = RetFalse /\ opened = <<>>)
       /\ Len(OfKindFound) = 1 =>
            /\ ret = RetNone
            /\ Len(opened) = 1 /\ opened[1].entry = OfKindFound[1]
       /\ Len(OfKindFound) > 1 =>
            (ret = RetList(OfKindFound) /\ opened = <<>>)

\* C12: handle_file_action with an action outside {open, list} raises an
\* error; it does not return False as for a target that was not found.
C12_UnknownActionFails ==
    (RanAction /\ ActionArg \notin {"open", "list"}) =>
       /\ raised # ""
       /\ ret # RetFalse

\* --- the selection session, as the specification words it ---

\* the loop has just taken an utterance
UtteranceStep == last'.op = "utterance" /\ utterances' = utterances + 1
TookUtterance == last.op = "utterance"

Pending == session.pending_matches
Awaiting == Len(Pending) > 0

\* the numbers an utterance may name by a word
spoken_numbers ==
    <<"zero", "one", "two", "three", "four", "five", "six", "seven",
      "eight", "nine">>

RECURSIVE SpokenToDigits(_, _)
SpokenToDigits(text, i) ==
    IF i > Len(spoken_numbers) THEN text
    ELSE SpokenToDigits(SubWord(text, "", spoken_numbers[i],
                                Char(Digits, i)), i + 1)

\* what an utterance says (evaluated once per text): the wake word first,
\* a cancel phrase, a repeat request, a selection verb, the number it
\* names (-1: none), the zero-based index of its ordinal word (-1: none),
\* the kind and the target of an open-file or open-folder query
SaysOf(low) ==
    [wake |-> StartsWith(low, "alice"),
     cancel |-> \E ph \in {"cancel", "never mind", "forget it"} :
                   Contains(low, ph),
     repeat |-> Contains(low, "repeat") \/ Contains(low, "show options"),
     verb |-> \E w \in {"open", "select", "choose", "pick"} :
                 Contains(low, w),
     number |-> FirstNumber(SpokenToDigits(low, 1)),
     ordinal |-> OrdinalIndex(low),
     kind |-> IF StartsWith(low, "open folder") THEN "folder"
              ELSE IF StartsWith(low, "open file") THEN "file" ELSE "",
     target |-> IF StartsWith(low, "open folder")
                THEN Strip(SubSeq(low, Len("open folder") + 1, Len(low)))
                ELSE IF StartsWith(low, "open file")
                THEN Strip(SubSeq(low, Len("open file") + 1, Len(low)))
                ELSE "",
     noise |-> low \in {"the", "you", "ok", "okay", "bye"}]

Says == [u \in Utterances |-> SaysOf(Lower(u))]

\* what the last utterance said
Said == Says[last.arg[1]]

\* a plain utterance: no wake word before it, no cancel phrase, no repeat
\* request in it
Plain(said) == ~said.wake /\ ~said.cancel /\ ~said.repeat

\* the handlers of normal command and chat handling
Upstream ==
    {"wake word", "handle_file_action", "handle_app_action", "agent_call"}
WentTo(fns) == \E i \in 1..Len(handled) : handled[i].fn \in fns

\* the entries of the kind an open query finds
QueryFinds(kind, target) ==
    OfType(search_files(files, now, target, DefaultLimit).result, kind)

\* C13: while a list of k entries is pending, a selection utterance (one
\* with a selection verb, as "open number two") naming number n,
\* 1 <= n <= k, leads to exactly one open_entry call, on the n-th pending
\* entry, and clears the pending selection, whether the call succeeds or
\* not.
C13_SelectByNumber ==
    [][(UtteranceStep /\ Awaiting /\ Plain(Said') /\ Said'.verb
        /\ Said'.number \in 1..Len(Pending)) =>
         /\ Len(opened') = 1
         /\ opened'[1].entry = Pending[Said'.number]
         /\ session' = NoPending]_vars

\* C14: while a list of k entries is pending, a selection utterance whose
\* number (a word or digits) lies outside 1..k, or whose ordinal word lies
\* beyond the list, opens no entry, goes to no other handler, and leaves
\* the pending selection as it is.
C14_OutOfRangeIgnored ==
    [][(UtteranceStep /\ Awaiting /\ Plain(Said') /\ Said'.verb
        /\ Said'.kind = ""
        /\ \/ Said'.number >= 0 /\ Said'.number \notin 1..Len(Pending)
           \/ Said'.number = -1 /\ Said'.ordinal >= Len(Pending)) =>
         /\ opened' = <<>>
         /\ ~WentTo(Upstream)'
         /\ raised' = ""
         /\ session' = session]_vars

\* C15: while a list is pending, an utterance with an ordinal word
\* (first..fifth, within the list) opens the entry at that zero-based
\* index and clears the pending selection, with or without a verb.
C15_OrdinalSelects ==
    [][(UtteranceStep /\ Awaiting /\ Plain(Said') /\ Said'.number = -1
        /\ Said'.ordinal >= 0 /\ Said'.ordinal < Len(Pending)) =>
         /\ Len(opened') >= 1
         /\ opened'[1].entry = Pending[Said'.ordinal + 1]
         /\ session' = NoPending]_vars

\* C16: after an utterance that contains a cancel phrase, from any session
\* state, nothing is pending and the utterance has opened no entry.
C16_CancelClears ==
    (TookUtterance /\ Said.cancel) =>
       /\ session = NoPending
       /\ opened = <<>>

\* C17: while a list is pending, a repeat request shows the options again
\* and leaves the pending selection (entries, order, kind) as it is;
\* nothing is opened.
C17_RepeatKeeps ==
    [][(UtteranceStep /\ Awaiting /\ Said'.repeat /\ ~Said'.cancel
        /\ ~Said'.wake) =>
         /\ session' = session
         /\ opened' = <<>>
         /\ handled' = <<Handler("show_options", "", "", "")>>
         /\ raised' = ""]_vars

\* C18: when an open-file or open-folder query is taken in listening mode
\* while a list is pending, and the query finds more than one entry of
\* its kind, the pending selection becomes the list and the kind of the
\* query, and no entry of the old list is opened, whatever words or
\* digits the query has.
C18_NewQueryReplaces ==
    [][(UtteranceStep /\ Awaiting /\ LISTENING_MODE' /\ Said'.kind # ""
        /\ ~Said'.wake
        /\ Len(QueryFinds(Said'.kind, Said'.target)) > 1) =>
         /\ session' = set_pending(QueryFinds(Said'.kind, Said'.target),
                                   Said'.kind)
         /\ opened' = <<>>]_vars

\* a handler record of an open call of handle_file_action whose search
\* (on the table the utterance met) found more than one entry of its kind
Ambiguous(h) ==
    /\ h.fn = "handle_file_action"
    /\ h.action = "open"
    /\ Len(QueryFinds(h.kind, h.target)) > 1

NowPending(h) == set_pending(QueryFinds(h.kind, h.target), h.kind)

\* C19: nothing pending, an utterance makes a list pending exactly when a
\* handle_file_action open search found more than one entry of the
\* requested kind, and what is pending then is that list, in its order,
\* with the kind; a search finding none or one makes nothing pending.
C19_AwaitingIffAmbiguous ==
    [][(UtteranceStep /\ ~Awaiting) =>
         /\ Awaiting' <=> \E i \in 1..Len(handled') : Ambiguous(handled'[i])
         /\ \A i \in 1..Len(handled') :
               Ambiguous(handled'[i]) => session' = NowPending(handled'[i])
       ]_vars

\* C20: while a list is pending, the pending selection changes only by a
\* selection in range, a cancel phrase, or a newer query that found more
\* than one entry; any other utterance (not a session phrase, not noise)
\* leaves it as it is and goes on to command or chat handling.
C20_PendingFrame ==
    [][(UtteranceStep /\ Awaiting) =>
         /\ session' # session =>
              \/ Said'.cancel /\ session' = NoPending
              \/ /\ Said'.number \in 1..Len(Pending)
                 /\ session' = NoPending
                 /\ opened'[1].entry = Pending[Said'.number]
              \/ /\ Said'.ordinal \in 0..(Len(Pending) - 1)
                 /\ session' = NoPending
                 /\ opened'[1].entry = Pending[Said'.ordinal + 1]
              \/ \E i \in 1..Len(handled') :
                    /\ Ambiguous(handled'[i])
                    /\ session' = NowPending(handled'[i])
         /\ (/\ Plain(Said') /\ ~Said'.noise
             /\ Said'.number = -1 /\ Said'.ordinal = -1) =>
              /\ WentTo(Upstream)'
              /\ session' # session =>
                    \E i \in 1..Len(handled') : Ambiguous(handled'[i])
       ]_vars

-----------------------------------------------------------------------------
(* States in which the cases of the properties happen *)

\* an incremental pass over "/d" has inserted rows next to those an
\* earlier pass over the nested root "/d/ab" had stored
C6_Witness ==
    /\ RanIncremental /\ raised = ""
    /\ PassRoot = "/d"
    /\ HasPath(files, "/d/ab/m.TXT") /\ HasPath(files, "/d/ab")
    /\ RowOf(files, "/d/ab/m.TXT").id < RowOf(files, "/d/ab").id

\* one ensure_index call has fully rebuilt a root and then made an
\* incremental pass over a root that was fully rebuilt once, and
\* last_index_time carries the time of the last pass
C8_Witness ==
    /\ last.op = "ensure_index"
    /\ last.ran = <<"full_rebuild", "incremental_update">>
    /\ fullCount[last.arg[1]] = 1 /\ fullCount[last.arg[2]] = 1
    /\ MetaKey(last.arg[2]) \in DOMAIN meta
    /\ meta["last_index_time"] = ToString(now - 1)

\* full_rebuild has run over a root one of whose stored rows carries a
\* timestamp the filesystem no longer has
C9_Witness ==
    /\ RanFull
    /\ \E r \in files :
          /\ Below(r.path, PassRoot)
          /\ Exists(fs, r.path)
          /\ r.last_modified # fs[r.path].mtime

\* a selection by number has been taken while three entries were pending:
\* open_entry was called once, on the second of them, reported failure,
\* and nothing is pending now
C13_Witness ==
    /\ TookUtterance /\ Plain(Said) /\ Said.verb /\ Said.number = 2
    /\ handled = <<Handler("select number", "", "", "")>>
    /\ Len(opened) = 1 /\ ~opened[1].ok
    /\ opened[1].entry.path = "/d/ab"
    /\ session = NoPending

\* a repeat request has been taken while a list was pending: the options
\* were shown again and the list is still pending
C17_Witness ==
    /\ TookUtterance /\ Said.repeat /\ ~Said.cancel /\ ~Said.wake
    /\ Len(Pending) >= 2
    /\ handled = <<Handler("show_options", "", "", "")>>

\* the second utterance, taken in listening mode with nothing pending (the
\* first one was the wake word), was an open query that found more than
\* one entry of its kind, and that list is pending now
C19_Witness ==
    /\ TookUtterance /\ utterances = 2
    /\ Len(handled) = 1 /\ Ambiguous(handled[1])
    /\ Len(Pending) >= 2
    /\ session = NowPending(handled[1])

\* the third utterance, taken while the list of the second was pending,
\* was chat: it went to the agent and the list is still pending
C20_Witness ==
    /\ TookUtterance /\ utterances = 3
    /\ Plain(Said) /\ ~Said.noise /\ Said.number = -1 /\ Said.ordinal = -1
    /\ Said.kind = ""
    /\ Len(Pending) >= 2
    /\ handled[1].fn = "agent_call"
    /\ \A i \in 1..Len(handled) : handled[i].fn # "handle_file_action"

-----------------------------------------------------------------------------
(* Ranking: properties of search_files over the documents tree *)

\* the last operation was a search that returned
Searched == last.op = "search_files" /\ raised = ""
SearchedQuery == NormalizeQ(last.arg[1])
SearchedLimit == last.arg[2]

\* the candidate rows of the last search, in prefilter order, with scores
SearchedCandidates ==
    ScoredRows(QueryCandidates(files, last.arg[1], Split(SearchedQuery)),
               SearchedQuery, now)

\* the position of a returned entry among the candidates (0 when absent)
CandidateIndex(cands, entry) ==
    IF \E k \in 1..Len(cands) : FileEntry(cands[k].row) = entry
    THEN CHOOSE k \in 1..Len(cands) : FileEntry(cands[k].row) = entry
    ELSE 0

\* C21: two calls of search_files with the same query and the same limit
\* against the same catalog return the same entries in the same order,
\* whenever each call is made.
C21_SearchDeterministic ==
    [][(/\ last.op = "search_files" /\ last'.op = "search_files"
        /\ calls' = calls + 1
        /\ last'.arg = last.arg
        /\ files' = files)
       => result' = result]_vars

\* the row's normalized name is the normalized query
ExactMatch(row, normalized_query) == NormalizeN(row.name) = normalized_query
\* the normalized query is a proper substring of the row's normalized name
PartialMatch(name, normalized_query) ==
    /\ NormalizeN(name) # normalized_query
    /\ Contains(NormalizeN(name), normalized_query)

\* C22: a row whose normalized name equals the normalized query is ranked
\* before every row whose normalized name merely contains the query,
\* whatever their modification times, extensions and paths: no partial
\* match is returned unless every exact match is returned before it.
C22_ExactOutranksPartial ==
    Searched =>
      \A j \in 1..Len(result) :
         PartialMatch(result[j].name, SearchedQuery) =>
            \A row \in files :
               ExactMatch(row, SearchedQuery) =>
                  \E i \in 1..(j - 1) : result[i] = FileEntry(row)

\* the modification times two candidates are compared at
CandidateTimes ==
    {Epoch - 60 * SecondsPerDay, Epoch - 10 * SecondsPerDay,
     Epoch - 2 * SecondsPerDay, Epoch - 3600}

ScoreAt(row, normalized_query, mtime) ==
    final_score([row EXCEPT !.last_modified = mtime], normalized_query, now)

\* the scores of a row at each of the modification times
ScoresAt(row, normalized_query) ==
    [m \in CandidateTimes |-> ScoreAt(row, normalized_query, m)]

NonDecreasing(scores) ==
    \A m1, m2 \in DOMAIN scores :
       m1 <= m2 => ~FracLess(scores[m2], scores[m1])

\* C23: of two candidates that differ in the modification time only, the
\* one modified more recently never scores lower, for every query and
\* every time of the call.
C23_RecencyMonotone ==
    Searched =>
       \A row \in files : NonDecreasing(ScoresAt(row, SearchedQuery))

\* C24: the list search_files returns holds only candidates that score
\* MIN_SCORE or more, holds at most limit entries, is ordered by
\* non-increasing score with ties in prefilter order, and omits no
\* candidate that scores higher than a returned one.
ReturnedInOrder(cands, limit) ==
    /\ Len(result) <= limit
    /\ \A i \in 1..Len(result) :
          /\ CandidateIndex(cands, result[i]) # 0
          /\ ~FracLess(cands[CandidateIndex(cands, result[i])].score,
                       Frac(MIN_SCORE, 1))
    /\ \A i \in 1..(Len(result) - 1) :
          LET a == CandidateIndex(cands, result[i])
              b == CandidateIndex(cands, result[i + 1])
          IN  /\ ~FracLess(cands[a].score, cands[b].score)
              /\ ~FracLess(cands[b].score, cands[a].score) => a < b
    /\ \A k \in 1..Len(cands), i \in 1..Len(result) :
          FracLess(cands[CandidateIndex(cands, result[i])].score,
                   cands[k].score)
          => \E j \in 1..Len(result) : result[j] = FileEntry(cands[k].row)

C24_RankedList == Searched => ReturnedInOrder(SearchedCandidates, SearchedLimit)

\* C25: every entry search_files returns is a row of the catalog for which
\* every token of the normalized query is a substring, letter case aside,
\* of the name or of the path; at most CandidateCap rows are scored.
C25_ReturnedContainTokens ==
    Searched =>
      /\ Len(SearchedCandidates) <= CandidateCap
      /\ \A i \in 1..Len(result) :
            \E row \in files :
               /\ FileEntry(row) = result[i]
               /\ \A token \in TokenSet(Split(SearchedQuery)) :
                     \/ Contains(Lower(row.name), token)
                     \/ Contains(LowerP(row.path), token)

\* a search found two candidates scoring differently because of their
\* modification times alone
C23_Witness ==
    /\ Searched /\ Len(result) >= 2
    /\ \E row \in files, m1, m2 \in CandidateTimes :
          /\ FileEntry(row) = result[2]
          /\ FracLess(ScoreAt(row, SearchedQuery, m1),
                      ScoreAt(row, SearchedQuery, m2))

\* a search returned two entries of equal score, the earlier candidate
\* first, and left out a candidate
C24_Witness ==
    /\ Searched /\ Len(result) >= 2
    /\ Len(SearchedCandidates) > Len(result)
    /\ LET a == CandidateIndex(SearchedCandidates, result[1])
           b == CandidateIndex(SearchedCandidates, result[2])
       IN  /\ ~FracLess(SearchedCandidates[b].score,
                        SearchedCandidates[a].score)
           /\ a < b

-----------------------------------------------------------------------------
(* Failures: abrupt termination, stat errors, meta writes, open_entry *)

\* the rows are complete and no path and no id is stored twice
StoreValid(tbl) ==
    /\ \A r \in tbl :
          /\ r.path \in UniverseSet
          /\ r.name = Basename(r.path)
          /\ r.type \in {"file", "folder"}
          /\ r.id \in 1..seq'
          /\ r.extension = (IF r.type = "file" THEN LowerExt(r.name) ELSE "")
    /\ \A r1, r2 \in tbl : (r1.path = r2.path \/ r1.id = r2.id) => r1 = r2

\* a row without its id
Described(r) ==
    [name |-> r.name, path |-> r.path, type |-> r.type,
     extension |-> r.extension, parent |-> r.parent,
     last_modified |-> r.last_modified, size |-> r.size]

\* the rows of tbl below root are those a walk of root over f yields
Reconciled(tbl, f, root) ==
    {Described(r) : r \in {x \in tbl : Below(x.path, root)}}
    = {Described(r) :
         r \in full_rebuild([files |-> {}, seq |-> 0], f, root).files}

\* the root whose rebuild was ended abruptly
KilledRoot == last.arg[Len(last.ran)]

\* C26: a full rebuild ended abruptly leaves the store structurally valid
\* (complete rows, no duplicates), and the next ensure_index run for that
\* root reconciles the catalog with the filesystem through the
\* incremental pass.
C26_CrashRecovery ==
    [][/\ last'.op = "ensure_index_killed" => StoreValid(files')
       /\ (/\ last.op = "ensure_index_killed"
           /\ last'.op = "ensure_index"
           /\ last'.arg = <<KilledRoot>>)
          => /\ raised' = ""
             /\ last'.ran = <<"incremental_update">>
             /\ Reconciled(files', fs', KilledRoot)]_vars

\* the paths os.stat fails on
Locked(f) == {p \in DOMAIN f : f[p].locked}

\* the paths a walk cannot reach or stat: those os.stat fails on, and
\* what the directories among them hold
Hidden(f) == Locked(f) \cup UNION {BelowSet[q] : q \in Locked(f)}

\* the filesystem with no stat error
Unlocked(f) == [p \in DOMAIN f |-> [f[p] EXCEPT !.locked = FALSE]]

\* the names the walk of root meets, as paths
Walked(f, root) ==
    LET walk == PrunedWalk(f, root)
    IN  {Join(walk[i].root, walk[i].name) : i \in 1..Len(walk)}

\* what the pass named op leaves when run on the table db over f
PassOver(op, db, f, root) ==
    IF op = "full_rebuild" THEN FirstBuild(full_rebuild(db, f, root))
    ELSE incremental_update(db, f, root)

\* the rows of tbl for the paths outside L, without their ids
DescribedOutside(tbl, L) == {Described(r) : r \in {x \in tbl : x.path \notin L}}

\* new is what a pass leaves of old when os.stat failed on the paths L:
\* a row of such a path is a row as it was stored before, and the other
\* rows are those the pass without the errors (clean) leaves
SkippedOnly(old, new, clean, L) ==
    /\ \A r \in new : r.path \in L => r \in old
    /\ DescribedOutside(new, L) = DescribedOutside(clean.files, L)

\* C27: an os.stat failure on an entry never aborts full_rebuild or
\* incremental_update: the pass raises nothing, inserts and updates no
\* row for that entry (nor for what it holds, when it is a directory:
\* the walk cannot reach it), and leaves the row of every other entry as
\* the pass without the failure does.
C27_StatFailureSkipped ==
    [][(/\ last'.op \in {"full_rebuild", "incremental_update"}
        /\ calls' = calls + 1)
       => /\ raised' = ""
          /\ SkippedOnly(files, files',
                         PassOver(last'.op, [files |-> files, seq |-> seq],
                                  Unlocked(fs), last'.arg[1]),
                         Hidden(fs))]_vars

\* a pass met a name os.stat fails on, skipped it, and stored or changed
\* the row of another name
C27_Witness ==
    /\ last.op \in {"full_rebuild", "incremental_update"}
    /\ raised = ""
    /\ \E p \in Locked(fs) :
          /\ p \in Walked(fs, last.arg[1])
          /\ ~HasPath(files, p)
    /\ \E r \in files : r.id = seq /\ r.path \in Walked(fs, last.arg[1])

\* the last call of ensure_index met a failing save_meta
MetaFailed == last.op = "ensure_index" /\ "unsaved" \in DOMAIN last

\* the root whose meta record was not written
UnsavedRoot == last.arg[Len(last.ran)]

\* C28: a failure to write a meta record is swallowed: ensure_index does
\* not raise and goes on with the remaining roots; when the record is the
\* first-build marker it stays absent, and the next run for that root
\* performs a full rebuild.
C28_MetaFailureSwallowed ==
    [][/\ MetaFailed' =>
            /\ raised' = ""
            /\ Len(last'.ran) = Len(last'.arg)
            /\ last'.unsaved = "marker"
               => MetaKey(UnsavedRoot') \notin DOMAIN meta'
       /\ (/\ MetaFailed /\ last.unsaved = "marker"
           /\ last'.op = "ensure_index" /\ ~MetaFailed'
           /\ last'.arg = <<UnsavedRoot>>)
          => last'.ran = <<"full_rebuild">>]_vars

\* C29: open_entry never raises; it returns True when the OS call that
\* opens the entry succeeded and False when it failed, a missing target
\* and a file without a registered application included.
C29_OpenEntryReports ==
    last.op = "open_entry" =>
       /\ raised = ""
       /\ opened[1].ok <=> last.ran[1] = "started"
       /\ opened[1].ok => Exists(fs, opened[1].entry.path)

\* --- listening mode and the selection session ---

\* the step in which listening mode ends: the inactivity auto-exit
AutoExited == LISTENING_MODE /\ ~LISTENING_MODE'

\* C30: listening mode and the selection session are independent. An
\* utterance that starts with the wake word leaves the pending selection
\* as it is; in the step of the inactivity auto-exit the pending selection
\* changes only by what the utterance itself says (a cancel phrase, a
\* selection in range); and while a list is pending, with listening mode
\* on or off, a cancel phrase clears it, a repeat request shows it and
\* keeps it, and a selection verb with a number in range opens that entry
\* and clears it.
C30_ListeningIndependent ==
    [][UtteranceStep =>
         /\ Said'.wake => session' = session /\ LISTENING_MODE'
         /\ (AutoExited /\ session' # session) =>
              /\ session' = NoPending
              /\ \/ Said'.cancel
                 \/ /\ Said'.number \in 1..Len(Pending)
                    /\ opened'[1].entry = Pending[Said'.number]
                 \/ /\ Said'.ordinal \in 0..(Len(Pending) - 1)
                    /\ opened'[1].entry = Pending[Said'.ordinal + 1]
         /\ (Awaiting /\ ~Said'.wake) =>
              /\ Said'.cancel =>
                   /\ session' = NoPending
                   /\ handled' = <<Handler("cancel", "", "", "")>>
              /\ (Said'.repeat /\ ~Said'.cancel) =>
                   /\ session' = session
                   /\ handled' = <<Handler("show_options", "", "", "")>>
              /\ (Plain(Said') /\ Said'.verb
                  /\ Said'.number \in 1..Len(Pending)) =>
                   /\ session' = NoPending
                   /\ opened'[1].entry = Pending[Said'.number]
       ]_vars

\* a pending list cancelled by an utterance taken with listening mode off:
\* the list was made pending in listening mode, which the auto-exit ended
C30_Witness ==
    /\ TookUtterance
    /\ ~LISTENING_MODE
    /\ Said.cancel /\ ~Said.wake
    /\ handled = <<Handler("cancel", "", "", "")>>
    /\ session = NoPending

-----------------------------------------------------------------------------
(* The budget example *)

BudgetSheet == "/d/r/Q4_Budget.xlsx"
BudgetNotes == "/d/r/old_q4_budget_notes.txt"

\* the score search_files gives the stored row of a path for the query of
\* the last search, at the time of that search
StoredScore(path) == final_score(RowOf(files, path), SearchedQuery, now)

\* the catalog of the example at the time of the search: the sheet
\* modified within the day, the notes sixty days ago or earlier, both at
\* or above the threshold
BudgetCatalog ==
    /\ HasPath(files, BudgetSheet) /\ HasPath(files, BudgetNotes)
    /\ now - RowOf(files, BudgetSheet).last_modified < SecondsPerDay
    /\ now - RowOf(files, BudgetNotes).last_modified >= 60 * SecondsPerDay
    /\ ~FracLess(StoredScore(BudgetSheet), Frac(MIN_SCORE, 1))
    /\ ~FracLess(StoredScore(BudgetNotes), Frac(MIN_SCORE, 1))

\* the place of a path in the returned list (0: not returned)
PlaceOf(path) ==
    IF \E i \in 1..Len(result) : result[i].path = path
    THEN CHOOSE i \in 1..Len(result) : result[i].path = path
    ELSE 0

\* C32: with Q4_Budget.xlsx modified today and old_q4_budget_notes.txt
\* modified sixty days ago, both at or above the threshold, the search for
\* "q4 budget" returns the sheet first and, when the limit leaves room for
\* it, the notes after it; the score of the sheet is the higher one.
C32_BudgetSheetFirst ==
    (Searched /\ last.arg[1] = "q4 budget" /\ BudgetCatalog) =>
       /\ PlaceOf(BudgetSheet) = 1
       /\ SearchedLimit >= 2 => PlaceOf(BudgetNotes) > PlaceOf(BudgetSheet)
       /\ FracLess(StoredScore(BudgetNotes), StoredScore(BudgetSheet))

C32_Witness ==
    /\ Searched /\ last.arg[1] = "q4 budget" /\ BudgetCatalog
    /\ Len(result) = 2
    /\ result[1].path = BudgetSheet
    /\ result[2].path = BudgetNotes

-----------------------------------------------------------------------------
(* The rows an incremental pass meets *)

\* the columns an incremental pass never writes
SameIdentity(r1, r2) ==
    /\ r1.id = r2.id /\ r1.name = r2.name /\ r1.path = r2.path
    /\ r1.type = r2.type /\ r1.extension = r2.extension
    /\ r1.parent = r2.parent

\* C33: an incremental pass changes a stored row only when the
\* modification time of its path differs from the stored one, and then
\* sets last_modified and size to those of the filesystem; id, name, path,
\* kind, extension and parent stay, and a path that is there with an equal
\* modification time keeps its row as it was.
C33_UpdateWritesTimeAndSize ==
    [][RanIncremental' =>
         \A r \in files :
            /\ HasPath(files', r.path) =>
                 /\ SameIdentity(r, RowOf(files', r.path))
                 /\ RowOf(files', r.path) # r =>
                      /\ Exists(fs, r.path)
                      /\ r.last_modified # fs[r.path].mtime
                      /\ RowOf(files', r.path).last_modified = fs[r.path].mtime
                      /\ RowOf(files', r.path).size = fs[r.path].size
            /\ (Exists(fs, r.path) /\ r.last_modified = fs[r.path].mtime
                /\ Below(r.path, PassRoot')) => r \in files'
      ]_vars

\* an updated row: a path stored as a file that a directory has replaced
\* bears the new time and size and the old kind
C33_Witness ==
    /\ RanIncremental /\ raised = ""
    /\ \E r \in files :
          /\ r.type = "file" /\ IsDir(fs, r.path)
          /\ r.last_modified = fs[r.path].mtime
          /\ r.size = fs[r.path].size
          /\ r.last_modified = 2

-----------------------------------------------------------------------------
(* The two passes on a fresh root *)

EmptyDb == [files |-> {}, seq |-> 0]

\* the columns of a row but its id
Columns(r) ==
    [name |-> r.name, path |-> r.path, type |-> r.type,
     extension |-> r.extension, parent |-> r.parent,
     last_modified |-> r.last_modified, size |-> r.size]

ColumnsOf(tbl) == {Columns(r) : r \in tbl}

\* C36: on an empty catalog incremental_update(root) inserts the rows
\* full_rebuild(root) inserts for the same tree (same path, name, kind,
\* extension, parent, timestamp and size), and the other way round.
C36_PassesAgreeOnFreshRoot ==
    [][(files = {} /\ calls' = calls + 1) =>
         /\ last'.op = "incremental_update" =>
              /\ raised' = ""
              /\ ColumnsOf(files')
                 = ColumnsOf(full_rebuild(EmptyDb, fs, PassRoot').files)
         /\ last'.op = "full_rebuild" =>
              ColumnsOf(files')
              = ColumnsOf(incremental_update(EmptyDb, fs, PassRoot').files)
      ]_vars

\* C37: in an incremental pass a stored row whose path the walk lists and
\* os.stat fails on stays in the catalog as it was, and a row the pass
\* deletes is a row of a path the walk did not list.
C37_UnstatableKept ==
    [][(last'.op = "incremental_update" /\ calls' = calls + 1) =>
         /\ raised' = ""
         /\ \A r \in files :
               /\ (r.path \in Walked(fs, PassRoot') /\ fs[r.path].locked)
                  => r \in files'
               /\ ~HasPath(files', r.path) => r.path \notin Walked(fs, PassRoot')
      ]_vars

\* a pass has kept the row of a listed path os.stat failed on
C37_Witness ==
    /\ last.op = "incremental_update" /\ raised = ""
    /\ \E r \in files :
          /\ r.path \in Walked(fs, PassRoot)
          /\ fs[r.path].locked

-----------------------------------------------------------------------------
(* The shape of the pending selection *)

\* C35: the pending selection is either empty with its kind unset, or it
\* holds between 2 and 5 entries, its kind is file or folder, and every
\* entry is of that kind.
C35_PendingShape ==
    \/ session = NoPending
    \/ /\ Len(Pending) >= 2
       /\ Len(Pending) <= DefaultLimit
       /\ session.last_action_type \in {"file", "folder"}
       /\ \A i \in 1..Len(Pending) :
             Pending[i].type = session.last_action_type

\* a query for which the catalog holds more folders than the limit has
\* made a full list pending
C35_Witness ==
    /\ Len(Pending) = DefaultLimit
    /\ session.last_action_type = "folder"
    /\ Cardinality({r \in files : r.type = "folder" /\ r.name = "a"})
       + Cardinality({r \in files : r.type = "folder" /\ r.name = "ab"})
       > DefaultLimit

-----------------------------------------------------------------------------
(* One handling per utterance *)

\* the handlers of the selection session
SessionHandlers ==
    {"cancel", "show_options", "select number", "select ordinal",
     "invalid number", "invalid ordinal"}

\* the handlers of normal handling: the fast paths and the chat handling
Dispatches == {"handle_file_action", "handle_app_action", "agent_call"}

\* the times the last utterance was handed to normal handling: the calls
\* of agent_call (what it calls in turn is part of it), or else the calls
\* of the fast paths
DispatchCount ==
    IF WentTo({"agent_call"})
    THEN Cardinality({i \in 1..Len(handled) : handled[i].fn = "agent_call"})
    ELSE Cardinality({i \in 1..Len(handled) : handled[i].fn \in Dispatches})

\* an utterance the session acted on went to no normal handling
ConsumedBySession == WentTo(SessionHandlers) => ~WentTo(Dispatches)

\* an utterance the session did not act on went to normal handling once
DispatchedOnce ==
    (~WentTo(SessionHandlers) /\ ~Said.wake /\ raised = "")
       => DispatchCount = 1

\* C34: each finalized utterance is handled exactly once: one the
\* selection session acts on (cancel, repeat, selection by digit or by
\* ordinal word) is not also dispatched to the fast paths or to the chat
\* handling, and one the session does not act on is dispatched to normal
\* handling exactly once.
C34_HandledOnce ==
    (TookUtterance /\ ~Said.noise) => ConsumedBySession /\ DispatchedOnce

-----------------------------------------------------------------------------
(* One consumer *)

\* what the handling of an utterance reads and writes
Handling ==
    <<session, LISTENING_MODE, opened, handled, ret, utterances, files, seq,
      meta, result, raised, last>>

\* the state an utterance leaves, as the loop has written it
Written == <<session, LISTENING_MODE, opened, handled, raised>>

\* the same, taken from a state record of the loop body
WrittenOf(st) ==
    <<st.session, st.listening, st.opened, st.handled, st.raised>>

\* C31: utterances are handled one at a time by the main loop alone. A
\* step in which the audio callback queues a frame leaves the selection
\* session and the rest of the loop's state as they are, at whatever
\* point of the loop it comes; after startup the session and the
\* handling state change only in steps of the iteration under way, which
\* leave the queue and the buffer alone; an utterance starts only when
\* the recogniser returns, which the loop reaches only from audio_q.get()
\* by taking a frame; while an utterance is handled the loop takes no
\* frame; and the loop comes back to audio_q.get() only when the
\* handling is complete, the state being what the whole loop body leaves.
C31_SingleConsumer ==
    [][/\ Len(audio_q') > Len(audio_q) =>
            UNCHANGED <<Handling, buffer, pc, cur>>
       /\ (last.op # "init" /\ Handling' # Handling) =>
            /\ pc \in {"transcribe", "handle"} /\ pc' = "handle"
            /\ UNCHANGED <<audio_q, buffer>>
       /\ utterances' # utterances =>
            pc = "transcribe" /\ utterances' = utterances + 1
       /\ (pc' = "transcribe" /\ pc # "transcribe") =>
            /\ pc = "get"
            /\ UNCHANGED Handling
            /\ audio_q' = Tail(audio_q)
       /\ pc # "get" => Len(audio_q') >= Len(audio_q) /\ buffer' = buffer
       /\ (pc # "get" /\ pc' = "get") =>
            /\ UNCHANGED Handling
            /\ Written = WrittenOf(HeardSoFar(cur, Len(cur.tasks)))
      ]_vars

\* the callback has queued a frame while an utterance was handled: the
\* loop waits in a task of the agent's reply with a list pending, and the
\* queue, which held less when the iteration began, is full
C31_Witness ==
    /\ pc = "handle"
    /\ cur.k >= 1
    /\ Awaiting
    /\ Len(audio_q) = QueueCap

====
